---------------------------- MODULE Spec2Model ----------------------------
(***************************************************************************)
(* A model of the inference engine of studybuddy-ai (package ai, the file  *)
(* src/unnamed/part_002): the connection state, the streaming client, the  *)
(* response parser, the validator, the offline content bank and the        *)
(* coordinator (GeneratePersonalizedProblem, GenerateFeedback).            *)
(*                                                                         *)
(* A Go string is a sequence of characters; a character is written as a    *)
(* one-character TLA+ string when it is printable ASCII ("A", ":", " "),   *)
(* as "\n" for the line feed and as "U+XXXX" (its code point) otherwise,   *)
(* so that U+89D2 is the kanji `kaku' (angle).  Substring search, trimming *)
(* and splitting are computed on these sequences as the Go library does    *)
(* on the runes of the string (the grave accent is written "U+0060").       *)
(***************************************************************************)
EXTENDS Integers, Sequences, FiniteSets, TLC

(***************************************************************************)
(* Bounds of the model.                                                    *)
(***************************************************************************)
\* the goroutines that call the Engine concurrently
Threads == {"g1", "g2"}
\* the calls (GenerateProblem, GenerateFeedback) started in one behaviour
MaxCalls == 4
\* the lines the backend writes to one response body (StreamSpec)
MaxLines == 3
\* the lines of one reply text (ParserSpec)
MaxTextLines == 3
\* the fields of one rendered record (RoundTripSpec)
MaxFields == 2
\* the cleanup functions registered with one AppContext (ShutdownSpec)
MaxCleanups == 3
\* the goroutines of each kind the study view starts (StudySpec)
MaxGenerations == 3

(***************************************************************************)
(* strings                                                                 *)
(***************************************************************************)
\* unicode.IsSpace on the characters the model uses
IsSpace(c) == c \in {" ", "\n", "\t", "\r"}

\* strings.TrimLeftFunc(s, unicode.IsSpace): from the first character that
\* is no space on
TrimLeft(s) ==
  LET first == CHOOSE i \in 1..(Len(s) + 1) :
                 /\ i = Len(s) + 1 \/ ~IsSpace(s[i])
                 /\ \A j \in 1..(i - 1) : IsSpace(s[j])
  IN  SubSeq(s, first, Len(s))

\* strings.TrimRightFunc(s, unicode.IsSpace): up to the last character that
\* is no space
TrimRight(s) ==
  LET last == CHOOSE i \in 0..Len(s) :
                /\ i = 0 \/ ~IsSpace(s[i])
                /\ \A j \in (i + 1)..Len(s) : IsSpace(s[j])
  IN  SubSeq(s, 1, last)

\* strings.TrimSpace
TrimSpace(s) == TrimRight(TrimLeft(s))

\* strings.Index: the 0-based index of the first occurrence of sub in s, -1 if none
Index(s, sub) ==
  LET hits == {i \in 1..(Len(s) - Len(sub) + 1) : SubSeq(s, i, i + Len(sub) - 1) = sub}
  IN  IF hits = {} THEN -1
      ELSE (CHOOSE i \in hits : \A j \in hits : i <= j) - 1

\* strings.Contains
Contains(s, sub) == Index(s, sub) # -1

RECURSIVE ReplaceAll(_, _, _)
\* strings.ReplaceAll(s, old, new) for a non-empty old: the occurrences of
\* old are taken from the left, each search starting after the last one
ReplaceAll(s, old, new) ==
  LET i == Index(s, old)
  IN  IF i = -1 THEN s
      ELSE SubSeq(s, 1, i) \o new \o ReplaceAll(SubSeq(s, i + Len(old) + 1, Len(s)), old, new)

RECURSIVE Split(_, _)
\* strings.Split(s, sep) for a one-character sep: always at least one piece
Split(s, sep) ==
  LET i == Index(s, <<sep>>)
  IN  IF i = -1 THEN <<s>>
      ELSE <<SubSeq(s, 1, i)>> \o Split(SubSeq(s, i + 2, Len(s)), sep)

RECURSIVE Concat(_)
\* the concatenation of a sequence of strings
Concat(ss) == IF ss = <<>> THEN <<>> ELSE Head(ss) \o Concat(Tail(ss))

Digits == {"0", "1", "2", "3", "4", "5", "6", "7", "8", "9"}

DigitValue(c) ==
  CASE c = "0" -> 0 [] c = "1" -> 1 [] c = "2" -> 2 [] c = "3" -> 3 [] c = "4" -> 4
    [] c = "5" -> 5 [] c = "6" -> 6 [] c = "7" -> 7 [] c = "8" -> 8 [] c = "9" -> 9

RECURSIVE DecimalValue(_)
DecimalValue(ds) ==
  IF ds = <<>> THEN 0
  ELSE 10 * DecimalValue(SubSeq(ds, 1, Len(ds) - 1)) + DigitValue(ds[Len(ds)])

\* strconv.Atoi: an optional sign and one or more decimal digits, nothing
\* else (the strings of the model are far shorter than the 19 digits at
\* which Atoi reports a range error)
Atoi(s) ==
  LET signed == s # <<>> /\ Head(s) \in {"+", "-"}
      ds     == IF signed THEN Tail(s) ELSE s
      ok     == ds # <<>> /\ \A i \in 1..Len(ds) : ds[i] \in Digits
  IN  [ok  |-> ok,
       val |-> IF ~ok THEN 0
               ELSE IF signed /\ Head(s) = "-" THEN 0 - DecimalValue(ds)
               ELSE DecimalValue(ds)]

\* func parseInt: 0 when the text is no integer
parseInt(value) == IF Atoi(value).ok THEN Atoi(value).val ELSE 0

(***************************************************************************)
(* The streaming client: func (e *Engine) generate.                        *)
(*                                                                         *)
(* What the HTTP round trip gives is the environment's choice.  A reply is *)
(* a record                                                                *)
(*   stage  : "build" (http.NewRequestWithContext failed), "do"            *)
(*            (httpClient.Do failed: connection error, timeout, cancelled  *)
(*            context), or "body" (a response arrived)                     *)
(*   status : the HTTP status code                                         *)
(*   lines  : the tokens bufio.Scanner delivers from the body, in order    *)
(*   scanErr: whether scanner.Err() is non-nil when the loop is left (the  *)
(*            read of the body failed: connection lost, deadline, cancel)  *)
(* A line is a record [kind, response, done, error]: kind "blank" is the   *)
(* empty line, "invalid" a line that is not valid JSON, "mistyped" valid   *)
(* JSON that does not fit OllamaResponse (json.Unmarshal reports an        *)
(* UnmarshalTypeError after filling the fields that fit), "object" a JSON  *)
(* object (or null) that decodes without error.                            *)
(***************************************************************************)
StatusOK == 200

Line(kind, response, done, error) ==
  [kind |-> kind, response |-> response, done |-> done, error |-> error]

\* type OllamaResponse and its zero value
OllamaResponse(response, done, error) ==
  [Response |-> response, Done |-> done, Error |-> error]

ZeroOllamaResponse == OllamaResponse(<<>>, FALSE, <<>>)

\* json.Unmarshal([]byte(line), &ollamaResp) on a fresh ollamaResp
Unmarshal(line) ==
  CASE line.kind = "object" ->
         [err |-> FALSE, resp |-> OllamaResponse(line.response, line.done, line.error)]
    [] line.kind = "mistyped" ->
         [err |-> TRUE, resp |-> OllamaResponse(line.response, line.done, line.error)]
    [] OTHER -> [err |-> TRUE, resp |-> ZeroOllamaResponse]

\* the state of the scanning loop: the text built so far (fullResponse), and
\* whether the loop goes on ("scan"), was left by break ("break") or the
\* function returned from inside it ("return", with the error message)
ScanInit == [fullResponse |-> <<>>, at |-> "scan", msg |-> <<>>]

\* Variants of the loop body, each differing from ScanStep in one decision.
\* A property that still holds when ScanStep is replaced by a variant does
\* not depend on that decision.
\* a line that does not decode ends the call
ScanStepFailOnInvalid(st, line) ==
  IF line.kind = "blank" THEN st
  ELSE LET u == Unmarshal(line) IN
       IF u.err \/ u.resp.Error # <<>>
       THEN [st EXCEPT !.at = "return", !.msg = u.resp.Error]
       ELSE [st EXCEPT !.fullResponse = st.fullResponse \o u.resp.Response,
                       !.at = IF u.resp.Done THEN "break" ELSE "scan"]

\* the error field is not looked at
ScanStepIgnoreError(st, line) ==
  IF line.kind = "blank" THEN st
  ELSE LET u == Unmarshal(line) IN
       IF u.err THEN st
       ELSE [st EXCEPT !.fullResponse = st.fullResponse \o u.resp.Response,
                       !.at = IF u.resp.Done THEN "break" ELSE "scan"]

\* the text of a fragment is put in front of the text built so far
ScanStepPrepend(st, line) ==
  IF line.kind = "blank" THEN st
  ELSE LET u == Unmarshal(line) IN
       IF u.err THEN st
       ELSE IF u.resp.Error # <<>>
       THEN [st EXCEPT !.at = "return", !.msg = u.resp.Error]
       ELSE [st EXCEPT !.fullResponse = u.resp.Response \o st.fullResponse,
                       !.at = IF u.resp.Done THEN "break" ELSE "scan"]

\* the done flag is not looked at: the loop goes on to the end of the body
ScanStepNoBreak(st, line) ==
  IF line.kind = "blank" THEN st
  ELSE LET u == Unmarshal(line) IN
       IF u.err THEN st
       ELSE IF u.resp.Error # <<>>
       THEN [st EXCEPT !.at = "return", !.msg = u.resp.Error]
       ELSE [st EXCEPT !.fullResponse = st.fullResponse \o u.resp.Response]

\* one pass of the body of `for scanner.Scan()` on the line just scanned
ScanStep(st, line) ==
  IF line.kind = "blank" THEN st
  ELSE LET u == Unmarshal(line) IN
       IF u.err THEN st
       ELSE IF u.resp.Error # <<>>
       THEN [st EXCEPT !.at = "return", !.msg = u.resp.Error]
       ELSE [st EXCEPT !.fullResponse = st.fullResponse \o u.resp.Response,
                       !.at = IF u.resp.Done THEN "break" ELSE "scan"]

RECURSIVE ScanLoop(_, _)
\* for scanner.Scan() { ... }: the lines are taken in order until the loop
\* is left or the scanner has no more
ScanLoop(st, lines) ==
  IF lines = <<>> \/ st.at # "scan" THEN st
  ELSE ScanLoop(ScanStep(st, Head(lines)), Tail(lines))

\* what generate returns: the text and the error ("nil" for none); msg is
\* the backend's message of an "ollama" error
GenResult(text, err, msg) == [text |-> text, err |-> err, msg |-> msg]

\* a variant of readBody that takes a body that ends before a fragment with
\* the done flag for a failure
readBodyRequiringDone(lines, scanErr) ==
  LET st == ScanLoop(ScanInit, lines) IN
  IF st.at = "return" THEN GenResult(<<>>, "ollama", st.msg)
  ELSE IF scanErr THEN GenResult(<<>>, "scan", <<>>)
  ELSE IF st.at = "scan" THEN GenResult(<<>>, "incomplete", <<>>)
  ELSE GenResult(TrimSpace(st.fullResponse), "nil", <<>>)

\* generate from the scanner on: the loop, scanner.Err(), strings.TrimSpace
readBody(lines, scanErr) ==
  LET st == ScanLoop(ScanInit, lines) IN
  IF st.at = "return" THEN GenResult(<<>>, "ollama", st.msg)
  ELSE IF scanErr THEN GenResult(<<>>, "scan", <<>>)
  ELSE GenResult(TrimSpace(st.fullResponse), "nil", <<>>)

Reply(stage, status, lines, scanErr) ==
  [stage |-> stage, status |-> status, lines |-> lines, scanErr |-> scanErr]

\* func (e *Engine) generate, given what the round trip gives
generate(reply) ==
  IF reply.stage = "build" THEN GenResult(<<>>, "request", <<>>)
  ELSE IF reply.stage = "do" THEN GenResult(<<>>, "http", <<>>)
  ELSE IF reply.status # StatusOK THEN GenResult(<<>>, "status", <<>>)
  ELSE readBody(reply.lines, reply.scanErr)

(***************************************************************************)
(* The response parser: parseKeyValueResponse, getField.                   *)
(* A map[string]string is a function from its keys to their values.        *)
(***************************************************************************)
EmptyMap == <<>>

\* fields[key] = value
MapPut(fields, key, value) ==
  [k \in (DOMAIN fields) \cup {key} |-> IF k = key THEN value ELSE fields[k]]

\* the loop's variables: fields, currentKey, currentValue
ParseInit == [fields |-> EmptyMap, currentKey |-> <<>>, currentValue |-> <<>>]

\* a variant of ParseLine that drops every line without a colon
ParseLineNoContinuation(st, rawLine) ==
  LET line       == TrimSpace(rawLine)
      colonIndex == Index(line, <<":">>)
  IN  IF line = <<>> THEN st
      ELSE IF colonIndex # -1
      THEN [fields       |-> IF st.currentKey # <<>>
                             THEN MapPut(st.fields, st.currentKey, TrimSpace(st.currentValue))
                             ELSE st.fields,
            currentKey   |-> TrimSpace(SubSeq(line, 1, colonIndex)),
            currentValue |-> TrimSpace(SubSeq(line, colonIndex + 2, Len(line)))]
      ELSE st

\* a variant of ParseLine that starts the value over with each continuation line
ParseLineLastLine(st, rawLine) ==
  LET line       == TrimSpace(rawLine)
      colonIndex == Index(line, <<":">>)
  IN  IF line = <<>> THEN st
      ELSE IF colonIndex # -1
      THEN [fields       |-> IF st.currentKey # <<>>
                             THEN MapPut(st.fields, st.currentKey, TrimSpace(st.currentValue))
                             ELSE st.fields,
            currentKey   |-> TrimSpace(SubSeq(line, 1, colonIndex)),
            currentValue |-> TrimSpace(SubSeq(line, colonIndex + 2, Len(line)))]
      ELSE IF st.currentKey # <<>>
      THEN [st EXCEPT !.currentValue = line]
      ELSE st

\* one pass of the body of `for _, line := range lines`
ParseLine(st, rawLine) ==
  LET line       == TrimSpace(rawLine)
      colonIndex == Index(line, <<":">>)
  IN  IF line = <<>> THEN st
      ELSE IF colonIndex # -1
      THEN [fields       |-> IF st.currentKey # <<>>
                             THEN MapPut(st.fields, st.currentKey, TrimSpace(st.currentValue))
                             ELSE st.fields,
            currentKey   |-> TrimSpace(SubSeq(line, 1, colonIndex)),
            currentValue |-> TrimSpace(SubSeq(line, colonIndex + 2, Len(line)))]
      ELSE IF st.currentKey # <<>>
      THEN [st EXCEPT !.currentValue =
              (IF st.currentValue # <<>> THEN st.currentValue \o <<"\n">> ELSE <<>>) \o line]
      ELSE st

RECURSIVE ParseLines(_, _)
ParseLines(st, lines) ==
  IF lines = <<>> THEN st ELSE ParseLines(ParseLine(st, Head(lines)), Tail(lines))

\* the markdown code fence, three grave accents (U+0060)
CodeFence == <<"U+0060", "U+0060", "U+0060">>

\* func parseKeyValueResponse
parseKeyValueResponse(response) ==
  LET text == TrimSpace(ReplaceAll(response, CodeFence, <<>>))
      st   == ParseLines(ParseInit, Split(text, "\n"))
  IN  IF st.currentKey # <<>>
      THEN MapPut(st.fields, st.currentKey, TrimSpace(st.currentValue))
      ELSE st.fields

\* func getField
getField(fields, key, defaultValue) ==
  IF key \in DOMAIN fields /\ fields[key] # <<>> THEN fields[key] ELSE defaultValue

(***************************************************************************)
(* The validator: validateProblem, validateIsoscelesTriangleProblem.       *)
(***************************************************************************)
\* type Problem
Problem(title, description, options, correct, explanation, difficulty, time, enc, type) ==
  [Title |-> title, Description |-> description, Options |-> options,
   CorrectAnswer |-> correct, Explanation |-> explanation, Difficulty |-> difficulty,
   EstimatedTime |-> time, Encouragement |-> enc, ProblemType |-> type]

\* a nil *Problem
NilProblem == Problem(<<>>, <<>>, <<>>, 0, <<>>, 0, 0, <<>>, <<>>)

\* the default of a non-positive EstimatedTime
DefaultEstimatedTime == 300

\* the keywords of validateProblem's isMathProblem:
\* kaku (angle), sankakkei (triangle), do (degree), keisan (computation),
\* houteishiki (equation), the radical sign, superscript two, the equals sign
ValidatorMathKeywords ==
  { <<"U+89D2">>, <<"U+4E09", "U+89D2", "U+5F62">>, <<"U+5EA6">>, <<"U+8A08", "U+7B97">>,
    <<"U+65B9", "U+7A0B", "U+5F0F">>, <<"U+221A">>, <<"U+00B2">>, <<"=">> }

\* a variant of validatorIsMath that takes every description for quantitative
validatorIsMathAlways(description) == TRUE

\* validateProblem's isMathProblem
validatorIsMath(description) ==
  \E k \in ValidatorMathKeywords : Contains(description, k)

\* forbiddenPhrases, in the order of the slice
forbiddenPhrases ==
  << <<"U+6B21", "U+306E", "U+6587", "U+4E2D", "U+304B", "U+3089">>,
     <<"U+4E0B", "U+306E", "U+56F3">>,
     <<"U+4EE5", "U+4E0B", "U+306E", "U+6587">>,
     <<"U+6B21", "U+306E", "U+6587", "U+5B57", "U+306F">>,
     <<"U+6B21", "U+306E", "U+5358", "U+8A9E", "U+306F">>,
     <<"U+6B21", "U+306E", "U+6570", "U+5F0F", "U+306F">>,
     <<"U+6B21", "U+306E", "U+56F3">>,
     <<"U+6B21", "U+306E", "U+8868", "U+306F">>,
     <<"U+6B21", "U+306E", "U+8CC7", "U+6599">> >>

\* nitouhen-sankakkei (isosceles triangle), "45" do, kaku "B", "90"
IsoscelesTriangle == <<"U+4E8C", "U+7B49", "U+8FBA", "U+4E09", "U+89D2", "U+5F62">>
Angle == <<"U+89D2">>
FortyFiveDegrees == <<"4", "5", "U+5EA6">>
AngleB == <<"U+89D2", "B">>
Ninety == <<"9", "0">>

\* func validateIsoscelesTriangleProblem: the error, "nil" for none
validateIsoscelesTriangleProblem(problem) ==
  IF Contains(problem.Description, FortyFiveDegrees) /\ Contains(problem.Description, AngleB)
  THEN IF ~Contains(problem.Options[problem.CorrectAnswer + 1], Ninety)
       THEN "GeometricInconsistency" ELSE "nil"
  ELSE "nil"

\* a variant of validateProblem that rejects a Problem whose EstimatedTime is
\* not positive
validateProblemRejectingTime(problem) ==
  IF problem.Title = <<>> THEN [err |-> "MissingTitle", problem |-> problem]
  ELSE IF problem.Description = <<>> THEN [err |-> "MissingDescription", problem |-> problem]
  ELSE IF Len(problem.Options) < 2 THEN [err |-> "InsufficientOptions", problem |-> problem]
  ELSE IF problem.CorrectAnswer < 0 \/ problem.CorrectAnswer >= Len(problem.Options)
       THEN [err |-> "IndexOutOfRange", problem |-> problem]
  ELSE IF problem.Difficulty < 1 \/ problem.Difficulty > 5
       THEN [err |-> "DifficultyOutOfRange", problem |-> problem]
  ELSE IF problem.EstimatedTime <= 0 THEN [err |-> "InvalidTime", problem |-> problem]
  ELSE IF validatorIsMath(problem.Description)
       THEN IF \E i \in 1..Len(forbiddenPhrases) :
                  Contains(problem.Description, forbiddenPhrases[i])
            THEN [err |-> "ForbiddenReference", problem |-> problem]
            ELSE IF Contains(problem.Description, IsoscelesTriangle)
                    /\ Contains(problem.Description, Angle)
                    /\ validateIsoscelesTriangleProblem(problem) # "nil"
            THEN [err |-> "GeometricInconsistency", problem |-> problem]
            ELSE [err |-> "nil", problem |-> problem]
  ELSE [err |-> "nil", problem |-> problem]

\* a variant of validateProblem without the checks of CorrectAnswer and Difficulty
validateProblemNoRange(problem) ==
  LET timed == IF problem.EstimatedTime <= 0
               THEN [problem EXCEPT !.EstimatedTime = DefaultEstimatedTime]
               ELSE problem
  IN
  IF problem.Title = <<>> THEN [err |-> "MissingTitle", problem |-> problem]
  ELSE IF problem.Description = <<>> THEN [err |-> "MissingDescription", problem |-> problem]
  ELSE IF Len(problem.Options) < 2 THEN [err |-> "InsufficientOptions", problem |-> problem]
  ELSE [err |-> "nil", problem |-> timed]

\* func validateProblem: the error ("nil" for none) and the Problem as the
\* function leaves it (it assigns EstimatedTime through the pointer)
validateProblem(problem) ==
  LET timed == IF problem.EstimatedTime <= 0
               THEN [problem EXCEPT !.EstimatedTime = DefaultEstimatedTime]
               ELSE problem
  IN
  IF problem.Title = <<>> THEN [err |-> "MissingTitle", problem |-> problem]
  ELSE IF problem.Description = <<>> THEN [err |-> "MissingDescription", problem |-> problem]
  ELSE IF Len(problem.Options) < 2 THEN [err |-> "InsufficientOptions", problem |-> problem]
  ELSE IF problem.CorrectAnswer < 0 \/ problem.CorrectAnswer >= Len(problem.Options)
       THEN [err |-> "IndexOutOfRange", problem |-> problem]
  ELSE IF problem.Difficulty < 1 \/ problem.Difficulty > 5
       THEN [err |-> "DifficultyOutOfRange", problem |-> problem]
  ELSE IF validatorIsMath(problem.Description)
       THEN IF \E i \in 1..Len(forbiddenPhrases) :
                  Contains(problem.Description, forbiddenPhrases[i])
            THEN [err |-> "ForbiddenReference", problem |-> timed]
            ELSE IF Contains(problem.Description, IsoscelesTriangle)
                    /\ Contains(problem.Description, Angle)
                    /\ validateIsoscelesTriangleProblem(timed) # "nil"
            THEN [err |-> "GeometricInconsistency", problem |-> timed]
            ELSE [err |-> "nil", problem |-> timed]
  ELSE [err |-> "nil", problem |-> timed]

\* the keys parseProblemResponse and parseFeedbackResponse look up
TITLE == <<"T", "I", "T", "L", "E">>
DESCRIPTION == <<"D", "E", "S", "C", "R", "I", "P", "T", "I", "O", "N">>
OPTION1 == <<"O", "P", "T", "I", "O", "N", "1">>
OPTION2 == <<"O", "P", "T", "I", "O", "N", "2">>
OPTION3 == <<"O", "P", "T", "I", "O", "N", "3">>
OPTION4 == <<"O", "P", "T", "I", "O", "N", "4">>
CORRECT == <<"C", "O", "R", "R", "E", "C", "T">>
EXPLANATION == <<"E", "X", "P", "L", "A", "N", "A", "T", "I", "O", "N">>
DIFFICULTY == <<"D", "I", "F", "F", "I", "C", "U", "L", "T", "Y">>
TIME == <<"T", "I", "M", "E">>
ENCOURAGEMENT == <<"E", "N", "C", "O", "U", "R", "A", "G", "E", "M", "E", "N", "T">>
TYPE == <<"T", "Y", "P", "E">>
MESSAGE == <<"M", "E", "S", "S", "A", "G", "E">>
NEXT_STEPS == <<"N", "E", "X", "T", "_", "S", "T", "E", "P", "S">>
TIP == <<"T", "I", "P">>

\* a variant of problemFromFields that takes CORRECT for the index itself
problemFromFieldsOneBased(fields) ==
  Problem(
    getField(fields, TITLE, <<>>),
    getField(fields, DESCRIPTION, <<>>),
    << getField(fields, OPTION1, <<>>), getField(fields, OPTION2, <<>>),
       getField(fields, OPTION3, <<>>), getField(fields, OPTION4, <<>>) >>,
    parseInt(getField(fields, CORRECT, <<"1">>)),
    getField(fields, EXPLANATION, <<>>),
    parseInt(getField(fields, DIFFICULTY, <<"3">>)),
    parseInt(getField(fields, TIME, <<"3", "0", "0">>)),
    getField(fields, ENCOURAGEMENT, <<>>),
    getField(fields, TYPE, <<>>))

\* parseProblemResponse: problem := &Problem{...} from the fields
problemFromFields(fields) ==
  Problem(
    getField(fields, TITLE, <<>>),
    getField(fields, DESCRIPTION, <<>>),
    << getField(fields, OPTION1, <<>>), getField(fields, OPTION2, <<>>),
       getField(fields, OPTION3, <<>>), getField(fields, OPTION4, <<>>) >>,
    parseInt(getField(fields, CORRECT, <<"1">>)) - 1,
    getField(fields, EXPLANATION, <<>>),
    parseInt(getField(fields, DIFFICULTY, <<"3">>)),
    parseInt(getField(fields, TIME, <<"3", "0", "0">>)),
    getField(fields, ENCOURAGEMENT, <<>>),
    getField(fields, TYPE, <<>>))

\* func (e *Engine) parseProblemResponse: the Problem and the error
parseProblemResponse(response) ==
  LET fields  == parseKeyValueResponse(response)
      problem == problemFromFields(fields)
      v == validateProblem(problem)
  IN  IF DOMAIN fields = {} THEN [problem |-> NilProblem, err |-> "ParseError"]
      ELSE IF v.err # "nil" THEN [problem |-> NilProblem, err |-> v.err]
      ELSE [problem |-> v.problem, err |-> "nil"]

\* type FeedbackResponse
FeedbackResponse(message, explanation, encouragement, nextSteps, tip) ==
  [Message |-> message, Explanation |-> explanation, Encouragement |-> encouragement,
   NextSteps |-> nextSteps, TipOfDay |-> tip]

\* a nil *FeedbackResponse
NilFeedback == FeedbackResponse(<<>>, <<>>, <<>>, <<>>, <<>>)

\* a variant of parseFeedbackResponse that rejects a reply without a MESSAGE
parseFeedbackResponseValidating(response) ==
  LET fields == parseKeyValueResponse(response)
  IN  IF DOMAIN fields = {} \/ getField(fields, MESSAGE, <<>>) = <<>>
      THEN [feedback |-> NilFeedback, err |-> "ParseError"]
      ELSE [feedback |-> FeedbackResponse(
                           getField(fields, MESSAGE, <<>>),
                           getField(fields, EXPLANATION, <<>>),
                           getField(fields, ENCOURAGEMENT, <<>>),
                           getField(fields, NEXT_STEPS, <<>>),
                           getField(fields, TIP, <<>>)),
            err |-> "nil"]

\* func (e *Engine) parseFeedbackResponse: the FeedbackResponse and the error
parseFeedbackResponse(response) ==
  LET fields == parseKeyValueResponse(response)
  IN  IF DOMAIN fields = {} THEN [feedback |-> NilFeedback, err |-> "ParseError"]
      ELSE [feedback |-> FeedbackResponse(
                           getField(fields, MESSAGE, <<>>),
                           getField(fields, EXPLANATION, <<>>),
                           getField(fields, ENCOURAGEMENT, <<>>),
                           getField(fields, NEXT_STEPS, <<>>),
                           getField(fields, TIP, <<>>)),
            err |-> "nil"]

(***************************************************************************)
(* The offline content bank: the Problem literals of getMathProblem,       *)
(* getEnglishProblem, getJapaneseProblem, getScienceProblem,               *)
(* getSocialStudiesProblem and getGeneralProblem, character by character.  *)
(***************************************************************************)
\* getMathProblem: mathProblems[1], lines 731-761
mathProblemsG1 ==
  <<
    [ Title |-> <<"U+6B63", "U+8CA0", "U+306E", "U+6570", "U+306E", "U+8A08", "U+7B97">>,
      Description |-> <<"U+6B21", "U+306E", "U+8A08", "U+7B97", "U+3092", "U+3057", "U+3066",
          "U+304F", "U+3060", "U+3055", "U+3044", "U+3002", "\n", "(", "-", "3", ")", " ", "+",
          " ", "(", "+", "5", ")", " ", "=", " ", "?">>,
      Options |-> <<<<"+", "2">>, <<"-", "2">>, <<"+", "8">>, <<"-", "8">>>>,
      CorrectAnswer |-> 0,
      Explanation |-> <<"(", "-", "3", ")", " ", "+", " ", "(", "+", "5", ")", " ", "=", " ",
          "5", " ", "-", " ", "3", " ", "=", " ", "+", "2", " ", "U+3067", "U+3059", "U+3002",
          "U+6B63", "U+306E", "U+6570", "U+304B", "U+3089", "U+8CA0", "U+306E", "U+6570",
          "U+3092", "U+5F15", "U+304F", "U+3068", "U+304D", "U+306F", "U+3001", "U+7B26",
          "U+53F7", "U+306B", "U+6CE8", "U+610F", "U+3057", "U+307E", "U+3057", "U+3087",
          "U+3046", "U+3002">>,
      Difficulty |-> 2,
      EstimatedTime |-> 180,
      Encouragement |-> <<"U+6B63", "U+8CA0", "U+306E", "U+6570", "U+306E", "U+8A08", "U+7B97",
          "U+306F", "U+6163", "U+308C", "U+308C", "U+3070", "U+7C21", "U+5358", "U+3067",
          "U+3059", "U+FF01">>,
      ProblemType |-> <<"U+8A08", "U+7B97">> ],
    [ Title |-> <<"U+6587", "U+5B57", "U+3068", "U+5F0F">>,
      Description |-> <<"x", " ", "=", " ", "3", " ", "U+306E", "U+3068", "U+304D", "U+3001",
          "2", "x", " ", "+", " ", "1", " ", "U+306E", "U+5024", "U+3092", "U+6C42", "U+3081",
          "U+3066", "U+304F", "U+3060", "U+3055", "U+3044", "U+3002">>,
      Options |-> <<<<"5">>, <<"6">>, <<"7">>, <<"8">>>>,
      CorrectAnswer |-> 2,
      Explanation |-> <<"x", " ", "=", " ", "3", " ", "U+3092", "U+4EE3", "U+5165", "U+3059",
          "U+308B", "U+3068", "U+3001", "2", "U+00D7", "3", " ", "+", " ", "1", " ", "=", " ",
          "6", " ", "+", " ", "1", " ", "=", " ", "7", " ", "U+3067", "U+3059", "U+3002">>,
      Difficulty |-> 3,
      EstimatedTime |-> 200,
      Encouragement |-> <<"U+4EE3", "U+5165", "U+306E", "U+8A08", "U+7B97", "U+306F", "U+9806",
          "U+5E8F", "U+3092", "U+5B88", "U+308C", "U+3070", "U+78BA", "U+5B9F", "U+306B",
          "U+89E3", "U+3051", "U+307E", "U+3059", "U+FF01">>,
      ProblemType |-> <<"U+6587", "U+5B57", "U+5F0F">> ],
    [ Title |-> <<"U+5E73", "U+65B9", "U+6839", "U+306E", "U+8A08", "U+7B97">>,
      Description |-> <<"U+2713", " ", "9", " ", "U+306E", "U+5024", "U+306F", "U+3044",
          "U+304F", "U+3064", "U+3067", "U+3057", "U+3087", "U+3046", "U+304B", "U+FF1F">>,
      Options |-> <<<<"3">>, <<"4">>, <<"6">>, <<"9">>>>,
      CorrectAnswer |-> 0,
      Explanation |-> <<"U+2713", " ", "9", " ", "=", " ", "3", " ", "U+3067", "U+3059",
          "U+3002", "U+306A", "U+305C", "U+306A", "U+3089", "3", " ", "U+00D7", " ", "3", " ",
          "=", " ", "9", " ", "U+3060", "U+304B", "U+3089", "U+3067", "U+3059", "U+3002">>,
      Difficulty |-> 2,
      EstimatedTime |-> 160,
      Encouragement |-> <<"U+5E73", "U+65B9", "U+6839", "U+306F", "U+4E5D", "U+4E5D", "U+3092",
          "U+899A", "U+3048", "U+308B", "U+3068", "U+3088", "U+3044", "U+3067", "U+3057",
          "U+3087", "U+3046", "U+FF01">>,
      ProblemType |-> <<"U+5E73", "U+65B9", "U+6839">> ]
  >>

\* getMathProblem: mathProblems[2], lines 766-785
mathProblemsG2 ==
  <<
    [ Title |-> <<"U+9023", "U+7ACB", "U+65B9", "U+7A0B", "U+5F0F">>,
      Description |-> <<"U+6B21", "U+306E", "U+9023", "U+7ACB", "U+65B9", "U+7A0B", "U+5F0F",
          "U+3092", "U+89E3", "U+3044", "U+3066", "U+304F", "U+3060", "U+3055", "U+3044",
          "U+3002", "\n", "x", " ", "+", " ", "y", " ", "=", " ", "5", "\n", "x", " ", "-",
          " ", "y", " ", "=", " ", "1", "\n", "x", "U+306E", "U+5024", "U+306F", "U+FF1F">>,
      Options |-> <<<<"1">>, <<"2">>, <<"3">>, <<"4">>>>,
      CorrectAnswer |-> 2,
      Explanation |-> <<"2", "U+3064", "U+306E", "U+5F0F", "U+3092", "U+8DB3", "U+3059",
          "U+3068", " ", "2", "x", " ", "=", " ", "6", " ", "U+306A", "U+306E", "U+3067", " ",
          "x", " ", "=", " ", "3", " ", "U+3067", "U+3059", "U+3002">>,
      Difficulty |-> 3,
      EstimatedTime |-> 300,
      Encouragement |-> <<"U+9023", "U+7ACB", "U+65B9", "U+7A0B", "U+5F0F", "U+306F", "U+4EE3",
          "U+5165", "U+6CD5", "U+3084", "U+52A0", "U+6E1B", "U+6CD5", "U+3092", "U+30DE",
          "U+30B9", "U+30BF", "U+30FC", "U+3059", "U+308C", "U+3070", "U+7C21", "U+5358",
          "U+3067", "U+3059", "U+FF01">>,
      ProblemType |-> <<"U+65B9", "U+7A0B", "U+5F0F">> ],
    [ Title |-> <<"U+4E00", "U+6B21", "U+95A2", "U+6570">>,
      Description |-> <<"y", " ", "=", " ", "2", "x", " ", "+", " ", "1", " ", "U+306B",
          "U+304A", "U+3044", "U+3066", "U+3001", "x", " ", "=", " ", "2", " ", "U+306E",
          "U+3068", "U+304D", "U+306E", " ", "y", " ", "U+306E", "U+5024", "U+306F", "U+FF1F">>,
      Options |-> <<<<"3">>, <<"4">>, <<"5">>, <<"6">>>>,
      CorrectAnswer |-> 2,
      Explanation |-> <<"y", " ", "=", " ", "2", " ", "U+00D7", " ", "2", " ", "+", " ", "1",
          " ", "=", " ", "4", " ", "+", " ", "1", " ", "=", " ", "5", " ", "U+3067", "U+3059",
          "U+3002">>,
      Difficulty |-> 3,
      EstimatedTime |-> 200,
      Encouragement |-> <<"U+4E00", "U+6B21", "U+95A2", "U+6570", "U+306E", "U+4EE3", "U+5165",
          "U+306F", "U+57FA", "U+672C", "U+3067", "U+3059", "U+FF01">>,
      ProblemType |-> <<"U+95A2", "U+6570">> ]
  >>

\* getMathProblem: mathProblems[3], lines 790-820
mathProblemsG3 ==
  <<
    [ Title |-> <<"U+4E8C", "U+6B21", "U+65B9", "U+7A0B", "U+5F0F">>,
      Description |-> <<"U+4E8C", "U+6B21", "U+65B9", "U+7A0B", "U+5F0F", " ", "x", "U+00B2",
          " ", "-", " ", "5", "x", " ", "+", " ", "6", " ", "=", " ", "0", " ", "U+3092",
          "U+89E3", "U+3044", "U+3066", "U+304F", "U+3060", "U+3055", "U+3044", "U+3002", "\n",
          "U+89E3", "U+306E", "U+3046", "U+3061", "U+5C0F", "U+3055", "U+3044", "U+65B9",
          "U+306F", "U+FF1F">>,
      Options |-> <<<<"1">>, <<"2">>, <<"3">>, <<"6">>>>,
      CorrectAnswer |-> 1,
      Explanation |-> <<"U+56E0", "U+6570", "U+5206", "U+89E3", "U+3059", "U+308B", "U+3068",
          " ", "(", "x", "-", "2", ")", "(", "x", "-", "3", ")", " ", "=", " ", "0", " ",
          "U+306A", "U+306E", "U+3067", "U+3001", "x", " ", "=", " ", "2", ",", " ", "3", " ",
          "U+3067", "U+3059", "U+3002", "U+5C0F", "U+3055", "U+3044", "U+65B9", "U+306F", " ",
          "2", " ", "U+3067", "U+3059", "U+3002">>,
      Difficulty |-> 4,
      EstimatedTime |-> 400,
      Encouragement |-> <<"U+4E8C", "U+6B21", "U+65B9", "U+7A0B", "U+5F0F", "U+306F", "U+56E0",
          "U+6570", "U+5206", "U+89E3", "U+306E", "U+57FA", "U+672C", "U+3092", "U+30DE",
          "U+30B9", "U+30BF", "U+30FC", "U+3059", "U+308C", "U+3070", "U+89E3", "U+3051",
          "U+307E", "U+3059", "U+FF01">>,
      ProblemType |-> <<"U+4E8C", "U+6B21", "U+65B9", "U+7A0B", "U+5F0F">> ],
    [ Title |-> <<"U+5E73", "U+65B9", "U+6839", "U+306E", "U+5E94", "U+7528">>,
      Description |-> <<"U+221A", "5", "0", " ", "U+3092", "U+7C21", "U+5358", "U+306A",
          "U+5F62", "U+306B", "U+8868", "U+3059", "U+3068", "U+FF1F">>,
      Options |-> <<<<"5", "U+221A", "2">>, <<"2", "U+221A", "5">>, <<"2", "5">>, <<"5",
          "0">>>>,
      CorrectAnswer |-> 0,
      Explanation |-> <<"U+221A", "5", "0", " ", "=", " ", "U+221A", "(", "2", "5", " ",
          "U+00D7", " ", "2", ")", " ", "=", " ", "5", "U+221A", "2", " ", "U+3067", "U+3059",
          "U+3002">>,
      Difficulty |-> 4,
      EstimatedTime |-> 350,
      Encouragement |-> <<"U+5E73", "U+65B9", "U+6839", "U+306E", "U+7C21", "U+5358", "U+5316",
          "U+306F", "U+56E0", "U+6570", "U+5206", "U+89E3", "U+304C", "U+9375", "U+3067",
          "U+3059", "U+FF01">>,
      ProblemType |-> <<"U+5E73", "U+65B9", "U+6839">> ],
    [ Title |-> <<"U+4E8C", "U+7B49", "U+8FBA", "U+4E09", "U+89D2", "U+5F62", "U+306E",
        "U+89D2", "U+5EA6">>,
      Description |-> <<"U+4E8C", "U+7B49", "U+8FBA", "U+4E09", "U+89D2", "U+5F62", "A", "B",
          "C", "U+3067", "U+3001", "U+89D2", "A", " ", "=", " ", "U+89D2", "C", " ", "=", " ",
          "4", "5", "U+5EA6", "U+306E", "U+3068", "U+304D", "U+3001", "U+89D2", "B", "U+306E",
          "U+5927", "U+304D", "U+3055", "U+306F", "U+4F55", "U+5EA6", "U+3067", "U+3059",
          "U+304B", "U+FF1F">>,
      Options |-> <<<<"4", "5", "U+5EA6">>, <<"6", "0", "U+5EA6">>, <<"9", "0", "U+5EA6">>,
          <<"1", "2", "0", "U+5EA6">>>>,
      CorrectAnswer |-> 2,
      Explanation |-> <<"U+4E09", "U+89D2", "U+5F62", "U+306E", "U+5185", "U+89D2", "U+306E",
          "U+548C", "U+306F", "1", "8", "0", "U+5EA6", "U+3067", "U+3059", "U+3002", "U+89D2",
          "A", " ", "+", " ", "U+89D2", "B", " ", "+", " ", "U+89D2", "C", " ", "=", " ", "1",
          "8", "0", "U+5EA6", "U+306A", "U+306E", "U+3067", "U+3001", "4", "5", "U+5EA6", " ",
          "+", " ", "U+89D2", "B", " ", "+", " ", "4", "5", "U+5EA6", " ", "=", " ", "1", "8",
          "0", "U+5EA6", "U+3001", "U+3088", "U+3063", "U+3066", "U+89D2", "B", " ", "=", " ",
          "1", "8", "0", "U+5EA6", " ", "-", " ", "9", "0", "U+5EA6", " ", "=", " ", "9", "0",
          "U+5EA6", "U+3067", "U+3059", "U+3002">>,
      Difficulty |-> 3,
      EstimatedTime |-> 250,
      Encouragement |-> <<"U+4E8C", "U+7B49", "U+8FBA", "U+4E09", "U+89D2", "U+5F62", "U+306E",
          "U+6027", "U+8CEA", "U+3068", "U+4E09", "U+89D2", "U+5F62", "U+306E", "U+5185",
          "U+89D2", "U+306E", "U+548C", "U+3092", "U+7406", "U+89E3", "U+3059", "U+308C",
          "U+3070", "U+89E3", "U+3051", "U+307E", "U+3059", "U+FF01">>,
      ProblemType |-> <<"U+56F3", "U+5F62">> ]
  >>

\* getEnglishProblem: englishProblems, lines 852-882
englishProblems ==
  <<
    [ Title |-> <<"U+57FA", "U+672C", "U+82F1", "U+5358", "U+8A9E">>,
      Description |-> <<"U+6B21", "U+306E", "U+82F1", "U+5358", "U+8A9E", "U+306E", "U+610F",
          "U+5473", "U+3068", "U+3057", "U+3066", "U+6B63", "U+3057", "U+3044", "U+3082",
          "U+306E", "U+3092", "U+9078", "U+3093", "U+3067", "U+304F", "U+3060", "U+3055",
          "U+3044", "U+3002", "\n", "U+300C", "b", "o", "o", "k", "U+300D", "U+306E", "U+610F",
          "U+5473", "U+306F", "U+FF1F">>,
      Options |-> <<<<"U+672C">>, <<"U+30DA", "U+30F3">>, <<"U+673A">>, <<"U+6905",
          "U+5B50">>>>,
      CorrectAnswer |-> 0,
      Explanation |-> <<"U+300C", "b", "o", "o", "k", "U+300D", "U+306F", "U+300C", "U+672C",
          "U+300D", "U+3068", "U+3044", "U+3046", "U+610F", "U+5473", "U+3067", "U+3059",
          "U+3002", "U+57FA", "U+672C", "U+7684", "U+306A", "U+82F1", "U+5358", "U+8A9E",
          "U+3067", "U+3059", "U+306D", "U+3002">>,
      Difficulty |-> 2,
      EstimatedTime |-> 150,
      Encouragement |-> <<"U+82F1", "U+5358", "U+8A9E", "U+3092", "U+899A", "U+3048", "U+308B",
          "U+3053", "U+3068", "U+3067", "U+82F1", "U+8A9E", "U+306E", "U+7406", "U+89E3",
          "U+304C", "U+6DF1", "U+307E", "U+308A", "U+307E", "U+3059", "U+FF01">>,
      ProblemType |-> <<"U+8A9E", "U+5F59">> ],
    [ Title |-> <<"U+52D5", "U+8A5E", "U+306E", "U+610F", "U+5473">>,
      Description |-> <<"U+300C", "p", "l", "a", "y", "U+300D", "U+306E", "U+610F", "U+5473",
          "U+3068", "U+3057", "U+3066", "U+6B63", "U+3057", "U+3044", "U+3082", "U+306E",
          "U+306F", "U+FF1F">>,
      Options |-> <<<<"U+904A", "U+3076">>, <<"U+98DF", "U+3079", "U+308B">>, <<"U+6B69",
          "U+304F">>, <<"U+5BDD", "U+308B">>>>,
      CorrectAnswer |-> 0,
      Explanation |-> <<"U+300C", "p", "l", "a", "y", "U+300D", "U+306F", "U+300C", "U+904A",
          "U+3076", "U+300D", "U+3068", "U+3044", "U+3046", "U+610F", "U+5473", "U+3067",
          "U+3059", "U+3002">>,
      Difficulty |-> 2,
      EstimatedTime |-> 140,
      Encouragement |-> <<"U+52D5", "U+8A5E", "U+3092", "U+7406", "U+89E3", "U+3059", "U+308B",
          "U+3053", "U+3068", "U+304C", "U+82F1", "U+8A9E", "U+4E0A", "U+9054", "U+306E",
          "U+9375", "U+3067", "U+3059", "U+FF01">>,
      ProblemType |-> <<"U+52D5", "U+8A5E">> ],
    [ Title |-> <<"U+5F62", "U+5BB9", "U+8A5E", "U+306E", "U+5229", "U+7528">>,
      Description |-> <<"U+300C", "b", "i", "g", "U+300D", "U+306E", "U+53CD", "U+5BFE",
          "U+306E", "U+610F", "U+5473", "U+306E", "U+5358", "U+8A9E", "U+306F", "U+FF1F">>,
      Options |-> <<<<"s", "m", "a", "l", "l">>, <<"f", "a", "s", "t">>, <<"g", "o", "o",
          "d">>, <<"n", "e", "w">>>>,
      CorrectAnswer |-> 0,
      Explanation |-> <<"U+300C", "b", "i", "g", "U+300D", "U+306E", "U+53CD", "U+5BFE",
          "U+306F", "U+300C", "s", "m", "a", "l", "l", "U+300D", "U+3067", "U+3059", "U+3002">>,
      Difficulty |-> 2,
      EstimatedTime |-> 130,
      Encouragement |-> <<"U+53CD", "U+5BFE", "U+8A9E", "U+3092", "U+899A", "U+3048", "U+308B",
          "U+3068", "U+8A9E", "U+5F59", "U+304C", "U+5897", "U+3048", "U+307E", "U+3059",
          "U+FF01">>,
      ProblemType |-> <<"U+5F62", "U+5BB9", "U+8A5E">> ]
  >>

\* getMathProblem: the default problem, lines 836-844
mathDefaultProblem ==
  [ Title |-> <<"U+57FA", "U+672C", "U+8A08", "U+7B97">>,
    Description |-> <<"7", " ", "+", " ", "8", " ", "=", " ", "?">>,
    Options |-> <<<<"1", "4">>, <<"1", "5">>, <<"1", "6">>, <<"1", "7">>>>,
    CorrectAnswer |-> 1,
    Explanation |-> <<"7", " ", "+", " ", "8", " ", "=", " ", "1", "5", " ", "U+3067",
        "U+3059", "U+3002">>,
    Difficulty |-> 1,
    EstimatedTime |-> 120,
    Encouragement |-> <<"U+8A08", "U+7B97", "U+306E", "U+57FA", "U+672C", "U+304B", "U+3089",
        "U+59CB", "U+3081", "U+307E", "U+3057", "U+3087", "U+3046", "U+FF01">>,
    ProblemType |-> <<"U+57FA", "U+672C", "U+8A08", "U+7B97">> ]

\* getJapaneseProblem, lines 897-905
japaneseProblem ==
  [ Title |-> <<"U+6F22", "U+5B57", "U+306E", "U+8AAD", "U+307F">>,
    Description |-> <<"U+6B21", "U+306E", "U+6F22", "U+5B57", "U+306E", "U+8AAD", "U+307F",
        "U+65B9", "U+3068", "U+3057", "U+3066", "U+6B63", "U+3057", "U+3044", "U+3082",
        "U+306E", "U+3092", "U+9078", "U+3093", "U+3067", "U+304F", "U+3060", "U+3055",
        "U+3044", "U+3002", "\n", "U+300C", "U+5B66", "U+7FD2", "U+300D", "U+306E", "U+8AAD",
        "U+307F", "U+65B9", "U+306F", "U+FF1F">>,
    Options |-> <<<<"U+304C", "U+304F", "U+3057", "U+3085", "U+3046">>, <<"U+304C", "U+304F",
        "U+3057", "U+3085">>, <<"U+304C", "U+304F", "U+3057", "U+3086", "U+3046">>, <<"U+304C",
        "U+304F", "U+3057">>>>,
    CorrectAnswer |-> 0,
    Explanation |-> <<"U+300C", "U+5B66", "U+7FD2", "U+300D", "U+306F", "U+300C", "U+304C",
        "U+304F", "U+3057", "U+3085", "U+3046", "U+300D", "U+3068", "U+8AAD", "U+307F",
        "U+307E", "U+3059", "U+3002", "U+65E5", "U+3005", "U+306E", "U+5B66", "U+7FD2",
        "U+3067", "U+8EAB", "U+306B", "U+3064", "U+3051", "U+307E", "U+3057", "U+3087",
        "U+3046", "U+3002">>,
    Difficulty |-> 2,
    EstimatedTime |-> 150,
    Encouragement |-> <<"U+6F22", "U+5B57", "U+306E", "U+8AAD", "U+307F", "U+65B9", "U+306F",
        "U+7DF4", "U+7FD2", "U+3059", "U+308C", "U+3070", "U+5FC5", "U+305A", "U+899A",
        "U+3048", "U+3089", "U+308C", "U+307E", "U+3059", "U+FF01">>,
    ProblemType |-> <<"U+6F22", "U+5B57">> ]

\* getScienceProblem, lines 912-920
scienceProblem ==
  [ Title |-> <<"U+690D", "U+7269", "U+306E", "U+57FA", "U+672C">>,
    Description |-> <<"U+690D", "U+7269", "U+304C", "U+5149", "U+5408", "U+6210", "U+3092",
        "U+884C", "U+3046", "U+305F", "U+3081", "U+306B", "U+5FC5", "U+8981", "U+306A",
        "U+3082", "U+306E", "U+3068", "U+3057", "U+3066", "U+6B63", "U+3057", "U+304F",
        "U+306A", "U+3044", "U+3082", "U+306E", "U+306F", "U+3069", "U+308C", "U+3067",
        "U+3059", "U+304B", "U+FF1F">>,
    Options |-> <<<<"U+4E8C", "U+9178", "U+5316", "U+70AD", "U+7D20">>, <<"U+6C34">>,
        <<"U+5149">>, <<"U+9178", "U+7D20">>>>,
    CorrectAnswer |-> 3,
    Explanation |-> <<"U+5149", "U+5408", "U+6210", "U+306B", "U+306F", "U+4E8C", "U+9178",
        "U+5316", "U+70AD", "U+7D20", "U+3001", "U+6C34", "U+3001", "U+5149", "U+304C",
        "U+5FC5", "U+8981", "U+3067", "U+3059", "U+3002", "U+9178", "U+7D20", "U+306F",
        "U+5149", "U+5408", "U+6210", "U+306E", "U+7523", "U+7269", "U+3067", "U+3059",
        "U+3002">>,
    Difficulty |-> 3,
    EstimatedTime |-> 200,
    Encouragement |-> <<"U+751F", "U+7269", "U+306E", "U+4ED5", "U+7D44", "U+307F", "U+3092",
        "U+7406", "U+89E3", "U+3059", "U+308B", "U+3053", "U+3068", "U+3067", "U+81EA",
        "U+7136", "U+3078", "U+306E", "U+7406", "U+89E3", "U+304C", "U+6DF1", "U+307E",
        "U+308A", "U+307E", "U+3059", "U+FF01">>,
    ProblemType |-> <<"U+751F", "U+7269">> ]

\* getSocialStudiesProblem, lines 927-935
socialStudiesProblem ==
  [ Title |-> <<"U+65E5", "U+672C", "U+306E", "U+5730", "U+7406">>,
    Description |-> <<"U+65E5", "U+672C", "U+306E", "U+9996", "U+90FD", "U+306F", "U+3069",
        "U+3053", "U+3067", "U+3059", "U+304B", "U+FF1F">>,
    Options |-> <<<<"U+5927", "U+962A">>, <<"U+4EAC", "U+90FD">>, <<"U+6771", "U+4EAC">>,
        <<"U+540D", "U+53E4", "U+5C4B">>>>,
    CorrectAnswer |-> 2,
    Explanation |-> <<"U+65E5", "U+672C", "U+306E", "U+9996", "U+90FD", "U+306F", "U+6771",
        "U+4EAC", "U+3067", "U+3059", "U+3002", "U+653F", "U+6CBB", "U+3084", "U+7D4C",
        "U+6E08", "U+306E", "U+4E2D", "U+5FC3", "U+5730", "U+3067", "U+3059", "U+3002">>,
    Difficulty |-> 1,
    EstimatedTime |-> 120,
    Encouragement |-> <<"U+5730", "U+7406", "U+306E", "U+77E5", "U+8B58", "U+306F", "U+4E16",
        "U+754C", "U+3092", "U+7406", "U+89E3", "U+3059", "U+308B", "U+7B2C", "U+4E00",
        "U+6B69", "U+3067", "U+3059", "U+FF01">>,
    ProblemType |-> <<"U+5730", "U+7406">> ]

\* getGeneralProblem, lines 942-950
generalProblem ==
  [ Title |-> <<"U+4E00", "U+822C", "U+5E38", "U+8B58">>,
    Description |-> <<"1", "U+5E74", "U+306F", "U+4F55", "U+65E5", "U+3067", "U+3057",
        "U+3087", "U+3046", "U+304B", "U+FF1F", "U+FF08", "U+5E73", "U+5E74", "U+306E",
        "U+5834", "U+5408", "U+FF09">>,
    Options |-> <<<<"3", "6", "4", "U+65E5">>, <<"3", "6", "5", "U+65E5">>, <<"3", "6", "6",
        "U+65E5">>, <<"3", "6", "7", "U+65E5">>>>,
    CorrectAnswer |-> 1,
    Explanation |-> <<"U+5E73", "U+5E74", "U+306F", "3", "6", "5", "U+65E5", "U+3067",
        "U+3059", "U+3002", "U+3046", "U+308B", "U+3046", "U+5E74", "U+306F", "3", "6", "6",
        "U+65E5", "U+306B", "U+306A", "U+308A", "U+307E", "U+3059", "U+3002">>,
    Difficulty |-> 1,
    EstimatedTime |-> 120,
    Encouragement |-> <<"U+57FA", "U+672C", "U+7684", "U+306A", "U+77E5", "U+8B58", "U+304B",
        "U+3089", "U+5B66", "U+7FD2", "U+3092", "U+59CB", "U+3081", "U+307E", "U+3057",
        "U+3087", "U+3046", "U+FF01">>,
    ProblemType |-> <<"U+4E00", "U+822C", "U+5E38", "U+8B58">> ]

\* the subjects: suugaku (mathematics), sansuu (arithmetic), eigo (English),
\* kokugo (Japanese), rika (science), shakai (social studies)
Suugaku == <<"U+6570", "U+5B66">>
Sansuu == <<"U+7B97", "U+6570">>
Eigo == <<"U+82F1", "U+8A9E">>
Kokugo == <<"U+56FD", "U+8A9E">>
Rika == <<"U+7406", "U+79D1">>
Shakai == <<"U+793E", "U+4F1A">>

\* mathProblems: the grades that have a list, and the list of each
mathGrades == {1, 2, 3}

mathProblems(grade) ==
  CASE grade = 1 -> mathProblemsG1 [] grade = 2 -> mathProblemsG2 [] grade = 3 -> mathProblemsG3

RECURSIVE NatToString(_)
NatToString(n) ==
  LET d == <<"0", "1", "2", "3", "4", "5", "6", "7", "8", "9">>[(n % 10) + 1]
  IN  IF n < 10 THEN <<d>> ELSE NatToString(n \div 10) \o <<d>>

\* fmt's %d
FormatInt(n) == IF n < 0 THEN <<"-">> \o NatToString(0 - n) ELSE NatToString(n)

\* fmt.Sprintf("<subject>_G%d", grade)
subjectKey(subject, grade) == subject \o <<"_", "G">> \o FormatInt(grade)

\* problemIndex[key]: 0 for a key the map does not hold
MapGetInt(m, key) == IF key \in DOMAIN m THEN m[key] ELSE 0

\* generateOfflineProblem: whether a rotation counter selects the Problem of
\* the context (getMathProblem for a grade that has a list, getEnglishProblem)
rotates(context) ==
  \/ context.Subject \in {Suugaku, Sansuu} /\ context.Grade \in mathGrades
                                            /\ Len(mathProblems(context.Grade)) > 0
  \/ context.Subject = Eigo

\* a variant of rotationKey with a key of its own for every subject
rotationKeyPerSubject(context) == subjectKey(context.Subject, context.Grade)

\* the key of the rotation counter of a context that rotates
rotationKey(context) ==
  IF context.Subject = Eigo THEN subjectKey(Eigo, context.Grade)
  ELSE subjectKey(Suugaku, context.Grade)

\* the list the rotation counter of a context indexes
rotationList(context) ==
  IF context.Subject = Eigo THEN englishProblems ELSE mathProblems(context.Grade)

\* a variant of fixedProblem with one Problem for every context without a list
fixedProblemGeneric(context) ==
  CASE context.Subject = Kokugo -> japaneseProblem
    [] context.Subject = Rika -> scienceProblem
    [] context.Subject = Shakai -> socialStudiesProblem
    [] OTHER -> generalProblem

\* the Problem of a context that does not rotate
fixedProblem(context) ==
  CASE context.Subject \in {Suugaku, Sansuu} -> mathDefaultProblem
    [] context.Subject = Kokugo -> japaneseProblem
    [] context.Subject = Rika -> scienceProblem
    [] context.Subject = Shakai -> socialStudiesProblem
    [] OTHER -> generalProblem

\* a variant of rotationIndex that ignores the counter
rotationIndexFirst(counters, key, list) == 0

\* index := e.problemIndex[subjectKey] % len(problems)
rotationIndex(problemIndex, key, list) == MapGetInt(problemIndex, key) % Len(list)

\* generateOfflineFeedback: the template of lines 708-714
offlineFeedbackCorrect ==
  FeedbackResponse(
    <<"U+1F389", " ", "U+6B63", "U+89E3", "U+3067", "U+3059", "U+FF01", "U+3088", "U+304F",
        "U+9811", "U+5F35", "U+308A", "U+307E", "U+3057", "U+305F", "U+FF01">>,
    <<"U+7D20", "U+6674", "U+3089", "U+3057", "U+3044", "U+7406", "U+89E3", "U+529B", "U+3067",
        "U+3059", "U+3002", "U+3053", "U+306E", "U+8ABF", "U+5B50", "U+3067", "U+5B66",
        "U+7FD2", "U+3092", "U+7D9A", "U+3051", "U+3066", "U+3044", "U+304D", "U+307E",
        "U+3057", "U+3087", "U+3046", "U+3002">>,
    <<"U+3042", "U+306A", "U+305F", "U+306E", "U+52AA", "U+529B", "U+304C", "U+5B9F", "U+3063",
        "U+3066", "U+3044", "U+307E", "U+3059", "U+3002", "U+3053", "U+306E", "U+8ABF",
        "U+5B50", "U+3067", "U+9811", "U+5F35", "U+308A", "U+307E", "U+3057", "U+3087",
        "U+3046", "U+FF01">>,
    <<"U+6B21", "U+306F", "U+3082", "U+3046", "U+5C11", "U+3057", "U+96E3", "U+3057", "U+3044",
        "U+554F", "U+984C", "U+306B", "U+30C1", "U+30E3", "U+30EC", "U+30F3", "U+30B8",
        "U+3057", "U+3066", "U+307F", "U+307E", "U+3057", "U+3087", "U+3046", "U+3002">>,
    <<"U+7406", "U+89E3", "U+3057", "U+305F", "U+3053", "U+3068", "U+3092", "U+81EA", "U+5206",
        "U+306E", "U+8A00", "U+8449", "U+3067", "U+8AAC", "U+660E", "U+3057", "U+3066",
        "U+307F", "U+308B", "U+3068", "U+3001", "U+3055", "U+3089", "U+306B", "U+8A18",
        "U+61B6", "U+306B", "U+5B9A", "U+7740", "U+3057", "U+3084", "U+3059", "U+304F",
        "U+306A", "U+308A", "U+307E", "U+3059", "U+3002">>)

\* generateOfflineFeedback: the template of lines 716-722
offlineFeedbackIncorrect ==
  FeedbackResponse(
    <<"U+1F4DA", " ", "U+304A", "U+3057", "U+3044", "U+FF01", "U+9593", "U+9055", "U+3044",
        "U+3082", "U+5B66", "U+7FD2", "U+306E", "U+5927", "U+5207", "U+306A", "U+4E00",
        "U+6B69", "U+3067", "U+3059", "U+3002">>,
    <<"U+4ECA", "U+56DE", "U+306F", "U+9593", "U+9055", "U+3048", "U+307E", "U+3057", "U+305F",
        "U+304C", "U+3001", "U+3053", "U+308C", "U+3082", "U+8CB4", "U+91CD", "U+306A",
        "U+5B66", "U+7FD2", "U+7D4C", "U+9A13", "U+3067", "U+3059", "U+3002", "U+6B63",
        "U+89E3", "U+3092", "U+78BA", "U+8A8D", "U+3057", "U+3066", "U+7406", "U+89E3",
        "U+3092", "U+6DF1", "U+3081", "U+307E", "U+3057", "U+3087", "U+3046", "U+3002">>,
    <<"U+5931", "U+6557", "U+306F", "U+6210", "U+529F", "U+306E", "U+6BCD", "U+3067", "U+3059",
        "U+3002", "U+8AE6", "U+3081", "U+305A", "U+306B", "U+7D9A", "U+3051", "U+3066",
        "U+3044", "U+3051", "U+3070", "U+5FC5", "U+305A", "U+7406", "U+89E3", "U+3067",
        "U+304D", "U+307E", "U+3059", "U+FF01">>,
    <<"U+540C", "U+3058", "U+554F", "U+984C", "U+3092", "U+6642", "U+9593", "U+3092", "U+7F6E",
        "U+3044", "U+3066", "U+3082", "U+3046", "U+4E00", "U+5EA6", "U+6311", "U+6226",
        "U+3057", "U+3066", "U+307F", "U+307E", "U+3057", "U+3087", "U+3046", "U+3002">>,
    <<"U+9593", "U+9055", "U+3048", "U+305F", "U+554F", "U+984C", "U+306F", "U+8A18", "U+9332",
        "U+3057", "U+3066", "U+304A", "U+304D", "U+3001", "U+5F8C", "U+3067", "U+5FA9",
        "U+7FD2", "U+3059", "U+308B", "U+3068", "U+7406", "U+89E3", "U+304C", "U+6DF1",
        "U+307E", "U+308A", "U+307E", "U+3059", "U+3002">>)

\* a variant of generateOfflineFeedback with one template for every request
generateOfflineFeedbackFixed(req) == offlineFeedbackIncorrect

\* func (e *Engine) generateOfflineFeedback
generateOfflineFeedback(req) ==
  IF req.IsCorrect THEN offlineFeedbackCorrect ELSE offlineFeedbackIncorrect

(***************************************************************************)
(* The prompt builders, as far as they decide what the call does next:     *)
(* whether building the prompt panics (an index out of range), and, for    *)
(* the feedback prompt, which template is used.                            *)
(***************************************************************************)
\* gradeText, a slice of four strings: its valid indices
gradeTextIndices == 0..3

\* buildPersonalizedPrompt: gradeText[context.Grade] is evaluated for every
\* context; gradeContent[context.Grade][context.Subject] reads maps and
\* gives "" for a grade or a subject they do not hold
buildPersonalizedPromptPanics(context) == context.Grade \notin gradeTextIndices

\* the keywords of buildFeedbackPrompt's isMathProblem: those of the
\* validator and menseki (area), taiseki (volume), heihou (square)
FeedbackMathKeywords ==
  { <<"U+89D2">>, <<"U+4E09", "U+89D2", "U+5F62">>, <<"U+5EA6">>, <<"U+8A08", "U+7B97">>,
    <<"U+65B9", "U+7A0B", "U+5F0F">>, <<"U+9762", "U+7A4D">>, <<"U+4F53", "U+7A4D">>,
    <<"U+221A">>, <<"U+00B2">>, <<"U+5E73", "U+65B9">>, <<"=">> }

\* buildFeedbackPrompt's isMathProblem
feedbackIsMath(description) ==
  \E k \in FeedbackMathKeywords : Contains(description, k)

\* buildFeedbackPrompt: req.Problem.Options[req.Problem.CorrectAnswer]
buildFeedbackPromptPanics(req) ==
  req.Problem.CorrectAnswer < 0 \/ req.Problem.CorrectAnswer >= Len(req.Problem.Options)

(***************************************************************************)
(* The inputs of the calls and the replies of the backend.                 *)
(***************************************************************************)
StudyContext(subject, grade) == [Subject |-> subject, Grade |-> grade]

\* taiiku (physical education): a subject the bank does not know
Taiiku == <<"U+4F53", "U+80B2">>

\* The calls are made in one of two scenarios, fixed when the Engine is
\* created.  In "concurrent" the goroutines of Threads call the Engine at
\* the same time, with few inputs; in "sequential" one goroutine makes one
\* call after the other, with all the inputs.
Scenarios == {"concurrent", "sequential"}

\* the goroutines that make calls
Callers(scenario) ==
  IF scenario = "sequential" THEN {CHOOSE t \in Threads : TRUE} ELSE Threads

\* the StudyContexts of the calls: a rotating list of two (mathematics,
\* grade 2, and arithmetic, which shares it), one of three (English), a
\* subject with one fixed Problem, a grade with no list, an unknown subject,
\* and a grade outside gradeText
Contexts(scenario) ==
  IF scenario = "config"
  THEN { StudyContext(Suugaku, 2) }
  ELSE IF scenario = "fair"
  THEN { StudyContext(Suugaku, 2), StudyContext(Suugaku, 4) }
  ELSE IF scenario = "concurrent"
  THEN { StudyContext(Suugaku, 2), StudyContext(Kokugo, 1), StudyContext(Suugaku, 4) }
  ELSE { StudyContext(Suugaku, 2), StudyContext(Sansuu, 2), StudyContext(Suugaku, 3),
         StudyContext(Eigo, 1),
         StudyContext(Kokugo, 1), StudyContext(Suugaku, 0), StudyContext(Taiiku, 3),
         StudyContext(Suugaku, 4) }

FeedbackRequest(problem, isCorrect) == [Problem |-> problem, IsCorrect |-> isCorrect]

\* the FeedbackRequests of the calls
Requests(scenario) ==
  IF scenario \in {"concurrent", "fair", "config"}
  THEN { FeedbackRequest(japaneseProblem, FALSE) }
  ELSE { FeedbackRequest(p, c) : p \in {japaneseProblem, mathProblemsG3[3]}, c \in BOOLEAN }

NoContext == StudyContext(<<>>, 0)
NoRequest == FeedbackRequest(NilProblem, FALSE)

\* a reply text in the layout the prompt asks for: one "KEY: value" line
\* for each pair
RECURSIVE Render(_)
Render(pairs) ==
  IF pairs = <<>> THEN <<>>
  ELSE Head(pairs)[1] \o <<":", " ">> \o Head(pairs)[2]
       \o (IF Len(pairs) > 1 THEN <<"\n">> ELSE <<>>) \o Render(Tail(pairs))

\* the common lines of the sample replies
SampleOptions ==
  << <<OPTION1, <<"a">>>>, <<OPTION2, <<"b">>>>, <<OPTION3, <<"c">>>>, <<OPTION4, <<"d">>>> >>

\* a reply the validator accepts, with a message for the feedback parser
GoodText ==
  Render(<< <<TITLE, <<"Q">>>>, <<DESCRIPTION, <<"w", "h", "o", "?">>>> >> \o SampleOptions
         \o << <<CORRECT, <<"4">>>>, <<DIFFICULTY, <<"1">>>>, <<TIME, <<"9", "0">>>>,
               <<MESSAGE, <<"o", "k">>>> >>)

\* accepted with the defaults: no CORRECT, no DIFFICULTY, TIME not positive
DefaultsText ==
  Render(<< <<TITLE, <<"Q">>>>, <<DESCRIPTION, <<"w", "h", "o", "?">>>> >> \o SampleOptions
         \o << <<TIME, <<"-", "5">>>> >>)

\* rejected: CORRECT: 5 is past the four options
BadIndexText ==
  Render(<< <<TITLE, <<"Q">>>>, <<DESCRIPTION, <<"w", "h", "o", "?">>>> >> \o SampleOptions
         \o << <<CORRECT, <<"5">>>>, <<DIFFICULTY, <<"5">>>> >>)

\* rejected: DIFFICULTY: 6
BadDifficultyText ==
  Render(<< <<TITLE, <<"Q">>>>, <<DESCRIPTION, <<"w", "h", "o", "?">>>> >> \o SampleOptions
         \o << <<CORRECT, <<"1">>>>, <<DIFFICULTY, <<"6">>>> >>)

\* no line with a colon: no field at all
ProseText == <<"s", "o", "r", "r", "y">>

\* one fragment of the stream
Fragment(response, done) == Line("object", response, done, <<>>)
ErrorFragment(message) == Line("object", <<>>, FALSE, message)

\* a body that carries text in two fragments, the second one done
TwoFragments(text) ==
  << Fragment(SubSeq(text, 1, Len(text) \div 2), FALSE),
     Fragment(SubSeq(text, Len(text) \div 2 + 1, Len(text)), TRUE) >>

\* the replies of the backend: each transport and protocol failure, and
\* bodies whose text is accepted or rejected
Replies(scenario) ==
  IF scenario \in {"fair", "config"}
  THEN { Reply("do", 0, <<>>, FALSE),
         Reply("body", StatusOK, << Fragment(<<>>, TRUE) >>, FALSE) }
  ELSE IF scenario = "concurrent"
  THEN { Reply("do", 0, <<>>, FALSE),
         Reply("body", StatusOK, TwoFragments(GoodText), FALSE),
         Reply("body", StatusOK, TwoFragments(BadIndexText), FALSE) }
  ELSE { Reply("build", 0, <<>>, FALSE),
         Reply("do", 0, <<>>, FALSE),
         Reply("body", 500, <<>>, FALSE),
         Reply("body", StatusOK, << Fragment(<<"Q">>, FALSE), ErrorFragment(<<"x">>) >>, FALSE),
         Reply("body", StatusOK, << Fragment(GoodText, FALSE) >>, TRUE) }
       \cup
       { Reply("body", StatusOK, TwoFragments(text), FALSE) :
           text \in {GoodText, DefaultsText, BadIndexText, BadDifficultyText, ProseText} }

(***************************************************************************)
(* The state.                                                              *)
(***************************************************************************)
VARIABLES
  scenario,      \* the scenario of the calls
  config,        \* Engine.config
  isOnline,      \* Engine.isOnline
  failureCount,  \* Engine.failureCount
  problemIndex,  \* Engine.problemIndex
  mu,            \* Engine.mu: the goroutine holding it for writing, and the readers
  th,            \* each goroutine's place in its call, its arguments, locals and result
  calls,         \* the calls started so far
  crashed,       \* a goroutine panicked: the process is gone
  trace,         \* history: what each goroutine's current (or last) call has done
  applied,       \* history: recordFailures applied since the last recordSuccess
  served,        \* history: for each rotation key, its list's length and the list
                 \* positions handed out, in order
  body,          \* StreamSpec: the response body the backend has written
  outcome,       \* StreamSpec: what generate made of the body
  input,         \* the specifications of one function: the argument drawn for it
  result         \* the specifications of one function: what it returned

vars ==
  <<scenario, config, isOnline, failureCount, problemIndex, mu, th, calls, crashed, trace, applied,
    served, body, outcome, input, result>>

engineVars == <<isOnline, failureCount, problemIndex, mu>>
streamVars == <<body, outcome>>
unitVars == <<input, result>>

NoGoroutine == "none"

\* type config.AIConfig, as far as the Engine reads it
AIConfig(model, url) == [Model |-> model, OllamaURL |-> url]

\* the config NewEngine is given, the one UpdateConfig is given, and the
\* config of a goroutine that has read none
InitialConfig == AIConfig("model0", "url0")
NewConfig == AIConfig("model1", "url1")
NoConfig == AIConfig("", "")

\* what a call returns: (*Problem, error) or (*FeedbackResponse, error)
Returned(problem, feedback, err) == [problem |-> problem, feedback |-> feedback, err |-> err]

NoGen == GenResult(<<>>, "nil", <<>>)

\* a goroutine that has made no call: pc is its place in the call ("idle"
\* outside of one), kind, context and req the call and its argument, cfg
\* the e.config it read (or, in UpdateConfig, the one it writes), gen
\* what generate returned, reg the value read from failureCount or
\* problemIndex, snap the failureCount found when the lock was taken, ret
\* what the call returned
Idle ==
  [pc |-> "idle", kind |-> "none", context |-> NoContext, req |-> NoRequest,
   cfg |-> NoConfig, gen |-> NoGen, reg |-> 0, snap |-> 0, ret |-> Returned(NilProblem, NilFeedback, "nil")]

\* one call's history: the calls of e.generate, the POST requests sent by
\* httpClient.Do, the recordFailures and recordSuccesses applied, the
\* offline lookups made
NoTrace == [attempts |-> 0, posts |-> 0, failures |-> 0, successes |-> 0, lookups |-> 0]

\* func NewEngine, with the setOnline it ends with
InitEngine ==
  /\ config = InitialConfig
  /\ isOnline = TRUE
  /\ failureCount = 0
  /\ problemIndex = EmptyMap
  /\ mu = [writer |-> NoGoroutine, readers |-> {}]
  /\ th = [t \in Threads |-> Idle]
  /\ calls = 0
  /\ crashed = FALSE
  /\ trace = [t \in Threads |-> NoTrace]
  /\ applied = 0
  /\ served = EmptyMap

InitStream ==
  /\ body = [lines |-> <<>>, scanErr |-> FALSE]
  /\ outcome = [made |-> FALSE, result |-> NoGen]

\* no function has been given an argument
InitUnit ==
  /\ input = <<>>
  /\ result = [made |-> FALSE]

Init == scenario \in Scenarios /\ InitEngine /\ InitStream /\ InitUnit

(***************************************************************************)
(* sync.RWMutex                                                            *)
(***************************************************************************)
\* a variant of CanLock for a lock that excludes nobody
LockUnguarded(m) == TRUE

\* e.mu.Lock() returns when no goroutine holds the mutex
CanLock(m) == m.writer = NoGoroutine /\ m.readers = {}

\* e.mu.RLock() returns when no goroutine holds the mutex for writing
CanRLock(m) == m.writer = NoGoroutine

At(t, pc) == ~crashed /\ th[t].pc = pc

Goto(t, pc) == th' = [th EXCEPT ![t].pc = pc]

\* e.mu.Lock(), from one place of the call to the next
Lock(t, from, to) ==
  /\ At(t, from)
  /\ CanLock(mu)
  /\ mu' = [mu EXCEPT !.writer = t]
  /\ th' = [th EXCEPT ![t].pc = to, ![t].snap = failureCount]

\* a variant of Unlocked that leaves the mutex with the goroutine
UnlockedNever == mu

\* e.mu.Unlock()
Unlocked == [mu EXCEPT !.writer = NoGoroutine]

(***************************************************************************)
(* GeneratePersonalizedProblem and GenerateFeedback, step by step.  A step *)
(* is one access to the Engine's shared fields, with the goroutine's own   *)
(* computation up to its next access.                                      *)
(***************************************************************************)
\* a goroutine calls GeneratePersonalizedProblem
CallGenerateProblem(t) ==
  /\ At(t, "idle")
  /\ t \in Callers(scenario)
  /\ calls < MaxCalls
  /\ \E context \in Contexts(scenario) :
       th' = [th EXCEPT ![t] = [Idle EXCEPT !.pc = "shouldTryAI", !.kind = "problem",
                                            !.context = context]]
  /\ calls' = calls + 1
  /\ trace' = [trace EXCEPT ![t] = NoTrace]
  /\ UNCHANGED <<scenario, config, engineVars, crashed, applied, served, streamVars, unitVars>>

\* a goroutine calls GenerateFeedback
CallGenerateFeedback(t) ==
  /\ At(t, "idle")
  /\ t \in Callers(scenario)
  /\ calls < MaxCalls
  /\ \E req \in Requests(scenario) :
       th' = [th EXCEPT ![t] = [Idle EXCEPT !.pc = "shouldTryAI", !.kind = "feedback",
                                            !.req = req]]
  /\ calls' = calls + 1
  /\ trace' = [trace EXCEPT ![t] = NoTrace]
  /\ UNCHANGED <<scenario, config, engineVars, crashed, applied, served, streamVars, unitVars>>

\* a variant of shouldTryAI that gives up on a backend marked unhealthy
shouldTryAIWhenOnline(online, failures) == online

\* func (e *Engine) shouldTryAI: what it returns, given the fields it could read
shouldTryAI(online, failures) == TRUE

\* shouldTryAI: e.mu.RLock()
ShouldTryAIRLock(t) ==
  /\ At(t, "shouldTryAI")
  /\ CanRLock(mu)
  /\ mu' = [mu EXCEPT !.readers = @ \cup {t}]
  /\ Goto(t, "shouldTryAI_return")
  /\ UNCHANGED <<scenario, config, isOnline, failureCount, problemIndex, calls, crashed, trace,
                 applied, served, streamVars, unitVars>>

\* whether building the call's prompt panics
promptPanics(g) ==
  IF g.kind = "problem" THEN buildPersonalizedPromptPanics(g.context)
  ELSE buildFeedbackPromptPanics(g.req)

\* the goroutine after generateOfflineFeedback, or after generateOfflineProblem
\* for a context whose Problem no rotation counter selects: the call has
\* returned; for a rotating context, it is about to take the lock
afterOffline(g) ==
  IF g.kind = "feedback"
  THEN [g EXCEPT !.pc = "idle",
                 !.ret = Returned(NilProblem, generateOfflineFeedback(g.req), "nil")]
  ELSE IF rotates(g.context) THEN [g EXCEPT !.pc = "rotate"]
  ELSE [g EXCEPT !.pc = "idle",
                 !.ret = Returned(fixedProblem(g.context), NilFeedback, "nil")]

\* the offline lookups that afterOffline has made
fixedLookups(g) ==
  IF g.kind = "problem" /\ ~rotates(g.context) THEN 1 ELSE 0

\* shouldTryAI: return true and the deferred e.mu.RUnlock(); the caller's
\* `if !e.shouldTryAI()`; then the prompt is built (which may panic: nothing
\* recovers it, the process ends) and e.generate is called with it
ShouldTryAIReturn(t) ==
  /\ At(t, "shouldTryAI_return")
  /\ mu' = [mu EXCEPT !.readers = @ \ {t}]
  /\ IF ~shouldTryAI(isOnline, failureCount)
     THEN /\ th' = [th EXCEPT ![t] = afterOffline(th[t])]
          /\ trace' = [trace EXCEPT ![t].lookups = @ + fixedLookups(th[t])]
          /\ UNCHANGED crashed
     ELSE IF promptPanics(th[t])
     THEN /\ Goto(t, "panic")
          /\ crashed' = TRUE
          /\ UNCHANGED trace
     ELSE /\ Goto(t, "generate")
          /\ trace' = [trace EXCEPT ![t].attempts = @ + 1]
          /\ UNCHANGED crashed
  /\ UNCHANGED <<scenario, config, isOnline, failureCount, problemIndex, calls, applied, served,
                 streamVars, unitVars>>

\* a variant of afterGenerate that takes a body that could not be read to
\* its end, or that carried an error fragment, for a success
afterGenerateTrustingBody(gen) ==
  IF gen.err \in {"request", "http", "status"} THEN "recordFailure" ELSE "recordSuccess"

\* a variant of afterGenerate that falls back offline whatever generate returned
afterGenerateFallingBack(gen) == "recordFailure"

\* a variant of afterGenerate that makes the call again when it failed
afterGenerateRetrying(gen) == IF gen.err # "nil" THEN "shouldTryAI" ELSE "recordSuccess"

\* the caller's `if err != nil` after e.generate: where the call goes on
afterGenerate(gen) == IF gen.err # "nil" THEN "recordFailure" ELSE "recordSuccess"

\* the POST requests generate sends: httpClient.Do is reached unless
\* http.NewRequestWithContext failed
requestsSent(reply) == IF reply.stage = "build" THEN 0 ELSE 1

\* the goroutines other than t that are in the middle of `e.config = newConfig`
ConfigWriters(t) == {u \in Threads \ {t} : th[u].pc = "updateConfig_write"}

\* the values an access of e.config by t can see or leave behind.  The
\* field is read and written without the lock: while another goroutine
\* writes it the access races with the write, and each field of the struct
\* may be the old one or the one being written
racing(t, value) ==
  IF ConfigWriters(t) = {} THEN {value}
  ELSE LET values == {value} \cup {th[u].cfg : u \in ConfigWriters(t)} IN
       {AIConfig(a.Model, b.OllamaURL) : a \in values, b \in values}

\* e.generate returns (it read e.config.Model and e.config.OllamaURL for
\* its request), and the caller's `if err != nil`
GenerateReturns(t) ==
  /\ At(t, "generate")
  /\ \E reply \in Replies(scenario), cfg \in racing(t, config) :
       LET gen == generate(reply) IN
       /\ th' = [th EXCEPT ![t].gen = gen, ![t].cfg = cfg, ![t].pc = afterGenerate(gen)]
       /\ trace' = [trace EXCEPT ![t].posts = @ + requestsSent(reply)]
  /\ UNCHANGED <<scenario, config, engineVars, calls, crashed, applied, served, streamVars, unitVars>>

\* recordFailure: e.mu.Lock()
RecordFailureLock(t) ==
  /\ Lock(t, "recordFailure", "recordFailure_isOnline")
  /\ UNCHANGED <<scenario, config, isOnline, failureCount, problemIndex, calls, crashed, trace,
                 applied, served, streamVars, unitVars>>

\* recordFailure: e.isOnline = false
RecordFailureIsOnline(t) ==
  /\ At(t, "recordFailure_isOnline")
  /\ isOnline' = FALSE
  /\ Goto(t, "recordFailure_load")
  /\ UNCHANGED <<scenario, config, failureCount, problemIndex, mu, calls, crashed, trace, applied,
                 served, streamVars, unitVars>>

\* recordFailure: e.failureCount++, the read
RecordFailureLoad(t) ==
  /\ At(t, "recordFailure_load")
  /\ th' = [th EXCEPT ![t].reg = failureCount, ![t].pc = "recordFailure_store"]
  /\ UNCHANGED <<scenario, config, engineVars, calls, crashed, trace, applied, served, streamVars, unitVars>>

\* recordFailure: e.failureCount++, the write
RecordFailureStore(t) ==
  /\ At(t, "recordFailure_store")
  /\ failureCount' = th[t].reg + 1
  /\ applied' = applied + 1
  /\ trace' = [trace EXCEPT ![t].failures = @ + 1]
  /\ Goto(t, "recordFailure_unlock")
  /\ UNCHANGED <<scenario, config, isOnline, problemIndex, mu, calls, crashed, served, streamVars, unitVars>>

\* recordFailure: the deferred e.mu.Unlock(); then the caller's
\* generateOfflineProblem or generateOfflineFeedback
RecordFailureUnlock(t) ==
  /\ At(t, "recordFailure_unlock")
  /\ mu' = Unlocked
  /\ th' = [th EXCEPT ![t] = afterOffline(th[t])]
  /\ trace' = [trace EXCEPT ![t].lookups = @ + fixedLookups(th[t])]
  /\ UNCHANGED <<scenario, config, isOnline, failureCount, problemIndex, calls, crashed, applied,
                 served, streamVars, unitVars>>

\* recordSuccess: e.mu.Lock()
RecordSuccessLock(t) ==
  /\ Lock(t, "recordSuccess", "recordSuccess_isOnline")
  /\ UNCHANGED <<scenario, config, isOnline, failureCount, problemIndex, calls, crashed, trace,
                 applied, served, streamVars, unitVars>>

\* recordSuccess: e.isOnline = true
RecordSuccessIsOnline(t) ==
  /\ At(t, "recordSuccess_isOnline")
  /\ isOnline' = TRUE
  /\ Goto(t, "recordSuccess_store")
  /\ UNCHANGED <<scenario, config, failureCount, problemIndex, mu, calls, crashed, trace, applied,
                 served, streamVars, unitVars>>

\* a variant of RecordSuccessStore that leaves failureCount as it is
RecordSuccessStoreKeeping(t) ==
  /\ At(t, "recordSuccess_store")
  /\ trace' = [trace EXCEPT ![t].successes = @ + 1]
  /\ Goto(t, "recordSuccess_unlock")
  /\ UNCHANGED <<scenario, config, engineVars, calls, crashed, applied, served, streamVars, unitVars>>

\* recordSuccess: e.failureCount = 0
RecordSuccessStore(t) ==
  /\ At(t, "recordSuccess_store")
  /\ failureCount' = 0
  /\ applied' = 0
  /\ trace' = [trace EXCEPT ![t].successes = @ + 1]
  /\ Goto(t, "recordSuccess_unlock")
  /\ UNCHANGED <<scenario, config, isOnline, problemIndex, mu, calls, crashed, served, streamVars, unitVars>>

\* a variant of parsed that answers a text it cannot use with an offline
\* Problem or FeedbackResponse
parsedOrOffline(g) ==
  IF g.kind = "problem"
  THEN LET r == parseProblemResponse(g.gen.text) IN
       IF r.err # "nil" THEN Returned(fixedProblem(g.context), NilFeedback, "nil")
       ELSE Returned(r.problem, NilFeedback, r.err)
  ELSE LET r == parseFeedbackResponse(g.gen.text) IN
       IF r.err # "nil" THEN Returned(NilProblem, generateOfflineFeedback(g.req), "nil")
       ELSE Returned(NilProblem, r.feedback, r.err)

\* what the call returns after recordSuccess:
\* return e.parseProblemResponse(response), return e.parseFeedbackResponse(response)
parsed(g) ==
  IF g.kind = "problem"
  THEN LET r == parseProblemResponse(g.gen.text) IN Returned(r.problem, NilFeedback, r.err)
  ELSE LET r == parseFeedbackResponse(g.gen.text) IN Returned(NilProblem, r.feedback, r.err)

\* recordSuccess: the deferred e.mu.Unlock(); then the caller parses the
\* text and returns
RecordSuccessUnlock(t) ==
  /\ At(t, "recordSuccess_unlock")
  /\ mu' = Unlocked
  /\ th' = [th EXCEPT ![t].pc = "idle", ![t].ret = parsed(th[t])]
  /\ UNCHANGED <<scenario, config, isOnline, failureCount, problemIndex, calls, crashed, trace,
                 applied, served, streamVars, unitVars>>

\* getMathProblem, getEnglishProblem: e.mu.Lock()
RotateLock(t) ==
  /\ Lock(t, "rotate", "rotate_load")
  /\ UNCHANGED <<scenario, config, isOnline, failureCount, problemIndex, calls, crashed, trace,
                 applied, served, streamVars, unitVars>>

\* index := e.problemIndex[subjectKey] % len(problems)
RotateLoad(t) ==
  /\ At(t, "rotate_load")
  /\ LET key   == rotationKey(th[t].context)
         list  == rotationList(th[t].context)
         index == rotationIndex(problemIndex, key, list)
         past  == IF key \in DOMAIN served THEN served[key].positions ELSE <<>>
     IN  /\ th' = [th EXCEPT ![t].reg = index, ![t].pc = "rotate_store"]
         /\ served' = MapPut(served, key,
                             [length |-> Len(list), positions |-> Append(past, index + 1)])
  /\ trace' = [trace EXCEPT ![t].lookups = @ + 1]
  /\ UNCHANGED <<scenario, config, engineVars, calls, crashed, applied, streamVars, unitVars>>

\* a variant of RotateStore that writes the index back as it was read
RotateStoreKeeping(t) ==
  /\ At(t, "rotate_store")
  /\ problemIndex' = MapPut(problemIndex, rotationKey(th[t].context), th[t].reg)
  /\ Goto(t, "rotate_unlock")
  /\ UNCHANGED <<scenario, config, isOnline, failureCount, mu, calls, crashed, trace, applied,
                 served, streamVars, unitVars>>

\* e.problemIndex[subjectKey] = index + 1
RotateStore(t) ==
  /\ At(t, "rotate_store")
  /\ problemIndex' = MapPut(problemIndex, rotationKey(th[t].context), th[t].reg + 1)
  /\ Goto(t, "rotate_unlock")
  /\ UNCHANGED <<scenario, config, isOnline, failureCount, mu, calls, crashed, trace, applied,
                 served, streamVars, unitVars>>

\* e.mu.Unlock(); return problems[index]
RotateUnlock(t) ==
  /\ At(t, "rotate_unlock")
  /\ mu' = Unlocked
  /\ th' = [th EXCEPT ![t].pc = "idle",
                      ![t].ret = Returned(rotationList(th[t].context)[th[t].reg + 1],
                                          NilFeedback, "nil")]
  /\ UNCHANGED <<scenario, config, isOnline, failureCount, problemIndex, calls, crashed, trace,
                 applied, served, streamVars, unitVars>>

Next ==
  \E t \in Threads :
    \/ CallGenerateProblem(t) \/ CallGenerateFeedback(t)
    \/ ShouldTryAIRLock(t) \/ ShouldTryAIReturn(t)
    \/ GenerateReturns(t)
    \/ RecordFailureLock(t) \/ RecordFailureIsOnline(t) \/ RecordFailureLoad(t)
    \/ RecordFailureStore(t) \/ RecordFailureUnlock(t)
    \/ RecordSuccessLock(t) \/ RecordSuccessIsOnline(t) \/ RecordSuccessStore(t)
    \/ RecordSuccessUnlock(t)
    \/ RotateLock(t) \/ RotateLoad(t) \/ RotateStore(t) \/ RotateUnlock(t)

Spec == Init /\ [][Next]_vars

\* the steps of a goroutine inside a call: the runtime schedules every
\* goroutine that can run, and the backend answers every request (the
\* http.Client has a Timeout), so a call that can take a step takes it
Step(t) ==
  \/ ShouldTryAIRLock(t) \/ ShouldTryAIReturn(t)
  \/ GenerateReturns(t)
  \/ RecordFailureLock(t) \/ RecordFailureIsOnline(t) \/ RecordFailureLoad(t)
  \/ RecordFailureStore(t) \/ RecordFailureUnlock(t)
  \/ RecordSuccessLock(t) \/ RecordSuccessIsOnline(t) \/ RecordSuccessStore(t)
  \/ RecordSuccessUnlock(t)
  \/ RotateLock(t) \/ RotateLoad(t) \/ RotateStore(t) \/ RotateUnlock(t)

\* the calls of the goroutines that run at once, with fair scheduling
FairInit == scenario = "fair" /\ InitEngine /\ InitStream /\ InitUnit

FairSpec == FairInit /\ [][Next]_vars /\ \A t \in Threads : WF_vars(Step(t))

(***************************************************************************)
(* The Engine's configuration: UpdateConfig replaces e.config while other  *)
(* goroutines are inside calls that read it.  None of the accesses to      *)
(* e.config takes e.mu.                                                    *)
(***************************************************************************)
\* the hiragana, katakana and kanji among the characters of the replies
JapaneseCharacters == {"U+306F", "U+30A2", "U+4E09"}

\* func containsJapanese
containsJapanese(text) == \E i \in 1..Len(text) : text[i] \in JapaneseCharacters

\* what the backend answers to testConnection's prompt: the replies of the
\* other calls, and a reply in Japanese
TestReplies ==
  Replies("config") \cup { Reply("body", StatusOK, << Fragment(<<"U+306F">>, TRUE) >>, FALSE) }

\* func (e *Engine) testConnection: the error it returns
testConnection(gen) ==
  IF gen.err # "nil" THEN "ConnectionTest"
  ELSE IF ~containsJapanese(gen.text) THEN "NoJapanese"
  ELSE "nil"

\* the errors of GetAvailableModels (building the request, the round trip,
\* reading the body, parsing it), and none
ModelListErrors == {"Request", "HTTP", "Read", "Parse", "nil"}

ConfigInit == scenario = "config" /\ InitEngine /\ InitStream /\ InitUnit

\* a goroutine calls UpdateConfig(newConfig)
CallUpdateConfig(t) ==
  /\ At(t, "idle")
  /\ calls < MaxCalls
  /\ \E newConfig \in {InitialConfig, NewConfig} :
       th' = [th EXCEPT ![t] = [Idle EXCEPT !.pc = "updateConfig", !.kind = "update",
                                            !.cfg = newConfig]]
  /\ calls' = calls + 1
  /\ trace' = [trace EXCEPT ![t] = NoTrace]
  /\ UNCHANGED <<scenario, config, engineVars, crashed, applied, served, streamVars, unitVars>>

\* e.config = newConfig: the assignment of the struct begins
UpdateConfigBegins(t) ==
  /\ At(t, "updateConfig")
  /\ Goto(t, "updateConfig_write")
  /\ UNCHANGED <<scenario, config, engineVars, calls, crashed, trace, applied, served,
                 streamVars, unitVars>>

\* e.config = newConfig: the assignment is complete, and testConnection
\* goes on to e.generate
UpdateConfigWrites(t) ==
  /\ At(t, "updateConfig_write")
  /\ config' \in racing(t, th[t].cfg)
  /\ Goto(t, "testConnection")
  /\ UNCHANGED <<scenario, engineVars, calls, crashed, trace, applied, served,
                 streamVars, unitVars>>

\* testConnection's e.generate returns (it read e.config for its request),
\* and UpdateConfig returns testConnection's error
TestConnectionReturns(t) ==
  /\ At(t, "testConnection")
  /\ \E reply \in TestReplies, cfg \in racing(t, config) :
       /\ th' = [th EXCEPT ![t].gen = generate(reply), ![t].cfg = cfg, ![t].pc = "idle",
                           ![t].ret = Returned(NilProblem, NilFeedback,
                                               testConnection(generate(reply)))]
       /\ trace' = [trace EXCEPT ![t].attempts = @ + 1,
                                 ![t].posts = @ + requestsSent(reply)]
  /\ UNCHANGED <<scenario, config, engineVars, calls, crashed, applied, served,
                 streamVars, unitVars>>

\* a goroutine calls GetCurrentModel, which returns e.config.Model
GetCurrentModel(t) ==
  /\ At(t, "idle")
  /\ calls < MaxCalls
  /\ \E cfg \in racing(t, config) :
       th' = [th EXCEPT ![t] = [Idle EXCEPT !.kind = "model", !.cfg = AIConfig(cfg.Model, "")]]
  /\ calls' = calls + 1
  /\ trace' = [trace EXCEPT ![t] = NoTrace]
  /\ UNCHANGED <<scenario, config, engineVars, crashed, applied, served, streamVars, unitVars>>

\* a goroutine calls GetAvailableModels, which reads e.config.OllamaURL
\* for its GET request and returns the backend's list or an error
GetAvailableModels(t) ==
  /\ At(t, "idle")
  /\ calls < MaxCalls
  /\ \E cfg \in racing(t, config), err \in ModelListErrors :
       th' = [th EXCEPT ![t] = [Idle EXCEPT !.kind = "models",
                                            !.cfg = AIConfig("", cfg.OllamaURL),
                                            !.ret = Returned(NilProblem, NilFeedback, err)]]
  /\ calls' = calls + 1
  /\ trace' = [trace EXCEPT ![t] = NoTrace]
  /\ UNCHANGED <<scenario, config, engineVars, crashed, applied, served, streamVars, unitVars>>

ConfigNext ==
  \/ Next
  \/ \E t \in Threads :
       \/ CallUpdateConfig(t) \/ UpdateConfigBegins(t) \/ UpdateConfigWrites(t)
       \/ TestConnectionReturns(t)
       \/ GetCurrentModel(t) \/ GetAvailableModels(t)

ConfigSpec == ConfigInit /\ [][ConfigNext]_vars

(***************************************************************************)
(* The streaming client on its own: the backend writes a body line by      *)
(* line, the read of the body may fail, and generate makes a result of     *)
(* what it was given.  The Engine's fields play no part.                   *)
(***************************************************************************)
\* the lines a body is made of: the empty line, a line that is no JSON, a
\* line of JSON whose fields have the wrong types, fragments with text
\* (one of it white space) that are done or not, and fragments with an
\* error, one of them with text and the done flag as well
StreamLines ==
  { Line("blank", <<>>, FALSE, <<>>),
    Line("invalid", <<>>, FALSE, <<>>),
    Line("mistyped", <<"A">>, TRUE, <<"e">>),
    Line("object", <<"A">>, TRUE, <<"e">>),
    ErrorFragment(<<"f">>) }
  \cup { Fragment(text, done) : text \in {<<"A">>, <<"B">>, <<"C">>, <<" ">>}, done \in BOOLEAN }

StreamInit == scenario = "stream" /\ InitEngine /\ InitStream /\ InitUnit

\* the backend writes one more line
BackendWrites ==
  /\ ~outcome.made
  /\ ~body.scanErr
  /\ Len(body.lines) < MaxLines
  /\ \E line \in StreamLines : body' = [body EXCEPT !.lines = Append(@, line)]
  /\ UNCHANGED <<scenario, config, engineVars, th, calls, crashed, trace, applied, served, outcome, unitVars>>

\* the read of the body fails after the lines written so far: scanner.Err()
\* is non-nil when the loop is left
BodyReadFails ==
  /\ ~outcome.made
  /\ ~body.scanErr
  /\ body' = [body EXCEPT !.scanErr = TRUE]
  /\ UNCHANGED <<scenario, config, engineVars, th, calls, crashed, trace, applied, served, outcome, unitVars>>

\* e.generate on a response with status 200 and this body
GenerateReads ==
  /\ ~outcome.made
  /\ outcome' = [made   |-> TRUE,
                 result |-> generate(Reply("body", StatusOK, body.lines, body.scanErr))]
  /\ UNCHANGED <<scenario, config, engineVars, th, calls, crashed, trace, applied, served, body, unitVars>>

StreamNext == BackendWrites \/ BodyReadFails \/ GenerateReads

StreamSpec == StreamInit /\ [][StreamNext]_vars

(***************************************************************************)
(* The response parser on its own: a reply text grows line by line and     *)
(* parseKeyValueResponse makes a map of it.                                *)
(***************************************************************************)
\* the lines a reply text is made of: "K: v", "K:w" (the key again),
\* " J : x " (white space around key and value), "c" and " d " (no colon),
\* the empty line, ": y" (no key), "L:" (no value), "e:f:g" (a second colon)
\* and a code fence followed by "m"
TextLines ==
  { <<"K", ":", " ", "v">>, <<"K", ":", "w">>, <<" ", "J", " ", ":", " ", "x", " ">>,
    <<"c">>, <<" ", "d", " ">>, <<>>, <<":", " ", "y">>, <<"L", ":">>,
    <<"e", ":", "f", ":", "g">>, CodeFence \o <<"m">> }

\* the text whose lines these are
JoinLines(lines) ==
  Concat([i \in 1..Len(lines) |-> IF i = 1 THEN lines[i] ELSE <<"\n">> \o lines[i]])

ParserInit ==
  /\ scenario = "parser"
  /\ InitEngine /\ InitStream
  /\ input = <<>>
  /\ result = [made |-> FALSE, fields |-> EmptyMap]

\* the reply text gets one more line
TextGrows ==
  /\ ~result.made
  /\ Len(input) < MaxTextLines
  /\ \E line \in TextLines : input' = Append(input, line)
  /\ UNCHANGED <<scenario, config, engineVars, th, calls, crashed, trace, applied, served,
                 streamVars, result>>

\* parseKeyValueResponse on the text
ParseKeyValueResponse ==
  /\ ~result.made
  /\ result' = [made |-> TRUE, fields |-> parseKeyValueResponse(JoinLines(input))]
  /\ UNCHANGED <<scenario, config, engineVars, th, calls, crashed, trace, applied, served,
                 streamVars, input>>

ParserNext == TextGrows \/ ParseKeyValueResponse

ParserSpec == ParserInit /\ [][ParserNext]_vars

(***************************************************************************)
(* GenerateFeedback from the reply on: a reply text grows line by line, is *)
(* read by generate without error, and the call returns what               *)
(* parseFeedbackResponse makes of it.                                      *)
(***************************************************************************)
\* the lines a feedback reply is made of: "MESSAGE: m", "MESSAGE:" (no
\* value), "TIP: t", "NEXT_STEPS: n", "K: v" (a key that is not read), "c"
\* (no colon), ": y" (a colon and no key) and the empty line
FeedbackLines ==
  { MESSAGE \o <<":", " ", "m">>, MESSAGE \o <<":">>, TIP \o <<":", " ", "t">>,
    NEXT_STEPS \o <<":", " ", "n">>, <<"K", ":", " ", "v">>, <<"c">>, <<":", " ", "y">>, <<>> }

FeedbackInit ==
  /\ scenario = "feedback"
  /\ InitEngine /\ InitStream
  /\ input = <<>>
  /\ result = [made |-> FALSE, ret |-> Returned(NilProblem, NilFeedback, "nil")]

\* the reply text gets one more line
FeedbackTextGrows ==
  /\ ~result.made
  /\ Len(input) < MaxTextLines
  /\ \E line \in FeedbackLines : input' = Append(input, line)
  /\ UNCHANGED <<scenario, config, engineVars, th, calls, crashed, trace, applied, served,
                 streamVars, result>>

\* GenerateFeedback after e.generate has read a body with this text:
\* e.recordSuccess(); return e.parseFeedbackResponse(response)
FeedbackReturns ==
  /\ ~result.made
  /\ LET gen == generate(Reply("body", StatusOK, << Fragment(JoinLines(input), TRUE) >>, FALSE))
     IN  /\ afterGenerate(gen) = "recordSuccess"
         /\ result' = [made |-> TRUE,
                       ret  |-> parsed([Idle EXCEPT !.kind = "feedback", !.gen = gen])]
  /\ UNCHANGED <<scenario, config, engineVars, th, calls, crashed, trace, applied, served,
                 streamVars, input>>

FeedbackNext == FeedbackTextGrows \/ FeedbackReturns

FeedbackSpec == FeedbackInit /\ [][FeedbackNext]_vars

(***************************************************************************)
(* The round trip through the reply layout: a record of fields is rendered *)
(* as the prompt asks the backend to write it, and parsed back.            *)
(***************************************************************************)
\* the keys of the record's fields
FieldKeys == {TITLE, EXPLANATION, TIP}

\* the values of the record's fields: "v", the three lines "a", "b", "c",
\* two lines of which the second has a colon, " v", two lines with an empty
\* line between them, two lines of which the first ends in a space, the
\* empty value, "x:y", and a code fence followed by "v"
FieldValues ==
  { <<"v">>, <<"a", "\n", "b", "\n", "c">>, <<"a", "\n", "b", ":", "c">>, <<" ", "v">>,
    <<"a", "\n", "\n", "b">>, <<"a", " ", "\n", "b">>, <<>>, <<"x", ":", "y">>,
    CodeFence \o <<"v">> }

RoundTripInit ==
  /\ scenario = "roundtrip"
  /\ InitEngine /\ InitStream
  /\ input = <<>>
  /\ result = [made |-> FALSE, fields |-> EmptyMap]

\* the record gets one more field, with a key it does not have yet
FieldAdded ==
  /\ ~result.made
  /\ Len(input) < MaxFields
  /\ \E k \in FieldKeys \ {input[i][1] : i \in 1..Len(input)}, v \in FieldValues :
       input' = Append(input, <<k, v>>)
  /\ UNCHANGED <<scenario, config, engineVars, th, calls, crashed, trace, applied, served,
                 streamVars, result>>

\* the record is rendered and parseKeyValueResponse reads the text
RenderAndParse ==
  /\ ~result.made
  /\ result' = [made |-> TRUE, fields |-> parseKeyValueResponse(Render(input))]
  /\ UNCHANGED <<scenario, config, engineVars, th, calls, crashed, trace, applied, served,
                 streamVars, input>>

RoundTripNext == FieldAdded \/ RenderAndParse

RoundTripSpec == RoundTripInit /\ [][RoundTripNext]_vars

(***************************************************************************)
(* The reply of the backend to the problem prompt: parseProblemResponse    *)
(* reads it and validateProblem judges the Problem; an accepted Problem    *)
(* comes back in a FeedbackRequest, and buildFeedbackPrompt classifies it. *)
(***************************************************************************)
\* a line the reply does not have
Absent == <<"absent">>

\* the TITLE lines of the replies
ReplyTitles == {Absent, <<"Q">>}

\* a description with no keyword and no phrase
PlainDescription == <<"w", "h", "o", "?">>
\* shita-no-zu (the figure below): a forbidden phrase, no keyword
ReferenceDescription == <<"U+4E0B", "U+306E", "U+56F3">>

\* the DESCRIPTION lines of the replies: none, the two above, and
\*   shita-no-zu no kaku: a forbidden phrase and the keyword kaku (angle);
\*   nitouhen-sankakkei, "45" do, kaku "B": the isosceles archetype;
\*   nitouhen-sankakkei no kaku "B": an isosceles triangle without "45" do;
\*   menseki (area): a keyword of buildFeedbackPrompt only;
\*   shita-no-zu no menseki: a forbidden phrase and that keyword
ReplyDescriptions ==
  { Absent, PlainDescription, ReferenceDescription,
    ReferenceDescription \o <<"U+306E", "U+89D2">>,
    IsoscelesTriangle \o <<" ">> \o FortyFiveDegrees \o <<" ">> \o AngleB,
    IsoscelesTriangle \o <<"U+306E">> \o AngleB,
    <<"U+9762", "U+7A4D">>,
    ReferenceDescription \o <<"U+306E", "U+9762", "U+7A4D">> }

\* the OPTION1..OPTION4 lines of the replies: none, one, four letters, and
\* the angles "60" do, "90" do, "190" do, "45" do
ReplyOptions ==
  { <<Absent, Absent, Absent, Absent>>,
    << <<"a">>, Absent, Absent, Absent >>,
    << <<"a">>, <<"b">>, <<"c">>, <<"d">> >>,
    << <<"6", "0", "U+5EA6">>, <<"9", "0", "U+5EA6">>, <<"1", "9", "0", "U+5EA6">>,
       <<"4", "5", "U+5EA6">> >> }

\* the CORRECT, DIFFICULTY and TIME lines of the replies
ReplyCorrects ==
  {Absent, <<>>, <<"0">>, <<"1">>, <<"2">>, <<"3">>, <<"4">>, <<"5">>, <<"x">>}
ReplyDifficulties == {Absent, <<"0">>, <<"5">>, <<"6">>}
ReplyTimes == {Absent, <<"9", "0">>, <<"0">>, <<"-", "5">>, <<"a", "b", "c">>}

\* the text of a reply: the lines it has, in the order of the layout
ReplyText(reply) ==
  Render(SelectSeq(<< <<TITLE, reply.title>>, <<DESCRIPTION, reply.description>>,
                      <<OPTION1, reply.options[1]>>, <<OPTION2, reply.options[2]>>,
                      <<OPTION3, reply.options[3]>>, <<OPTION4, reply.options[4]>>,
                      <<CORRECT, reply.correct>>, <<DIFFICULTY, reply.difficulty>>,
                      <<TIME, reply.time>> >>,
                   LAMBDA pair : pair[2] # Absent))

ReplyInit ==
  /\ scenario = "reply"
  /\ InitEngine /\ InitStream
  /\ input \in [title : ReplyTitles, description : ReplyDescriptions,
                options : ReplyOptions, correct : ReplyCorrects,
                difficulty : ReplyDifficulties, time : ReplyTimes]
  /\ result = [parsed |-> FALSE, err |-> "nil", problem |-> NilProblem,
               classified |-> FALSE, quantitative |-> FALSE, panics |-> FALSE]

\* parseProblemResponse on the text of the reply
ParseProblemResponse ==
  /\ ~result.parsed
  /\ LET r == parseProblemResponse(ReplyText(input)) IN
       result' = [result EXCEPT !.parsed = TRUE, !.err = r.err, !.problem = r.problem]
  /\ UNCHANGED <<scenario, config, engineVars, th, calls, crashed, trace, applied, served,
                 streamVars, input>>

\* buildFeedbackPrompt on a FeedbackRequest with the returned Problem
BuildFeedbackPrompt ==
  /\ result.parsed /\ result.err = "nil" /\ ~result.classified
  /\ \E isCorrect \in BOOLEAN :
       LET req == FeedbackRequest(result.problem, isCorrect) IN
         result' = [result EXCEPT !.classified = TRUE,
                                  !.quantitative = feedbackIsMath(req.Problem.Description),
                                  !.panics = buildFeedbackPromptPanics(req)]
  /\ UNCHANGED <<scenario, config, engineVars, th, calls, crashed, trace, applied, served,
                 streamVars, input>>

ReplyNext == ParseProblemResponse \/ BuildFeedbackPrompt

ReplySpec == ReplyInit /\ [][ReplyNext]_vars

(***************************************************************************)
(* AppContext (package main): AddCleanup registers cleanup functions and   *)
(* Shutdown cancels the context, waits for the goroutines and runs the     *)
(* cleanup functions.  input is ac.cleanupFns, each function with its      *)
(* number of registration and whether it returns an error; result is the   *)
(* place of Shutdown, whether ac.cancel() was called, how the wait ended,  *)
(* the loop variable i, the functions run so far and the errors logged.    *)
(***************************************************************************)
ShutdownInit ==
  /\ scenario = "shutdown"
  /\ InitEngine /\ InitStream
  /\ input = <<>>
  /\ result = [pc |-> "run", cancelled |-> FALSE, timedOut |-> FALSE, i |-> 0,
               ran |-> <<>>, logged |-> <<>>]

\* func (ac *AppContext) AddCleanup: ac.mu is free until Shutdown takes it
\* for its loop
AddCleanup ==
  /\ result.pc \in {"run", "wait"}
  /\ Len(input) < MaxCleanups
  /\ \E fails \in BOOLEAN :
       input' = Append(input, [id |-> Len(input) + 1, fails |-> fails])
  /\ UNCHANGED <<scenario, config, engineVars, th, calls, crashed, trace, applied, served,
                 streamVars, result>>

\* Shutdown: ac.cancel()
ShutdownCancel ==
  /\ result.pc = "run"
  /\ result' = [result EXCEPT !.pc = "wait", !.cancelled = TRUE]
  /\ UNCHANGED <<scenario, config, engineVars, th, calls, crashed, trace, applied, served,
                 streamVars, input>>

\* Shutdown: the select on done and time.After, then ac.mu.Lock() and
\* i := len(ac.cleanupFns) - 1 (here i counts from 1)
ShutdownWait ==
  /\ result.pc = "wait"
  /\ \E timedOut \in BOOLEAN :
       result' = [result EXCEPT !.pc = "cleanup", !.timedOut = timedOut, !.i = Len(input)]
  /\ UNCHANGED <<scenario, config, engineVars, th, calls, crashed, trace, applied, served,
                 streamVars, input>>

\* a variant of afterCleanup that leaves the loop at the first error
afterCleanupStopping(i, failed) == IF failed THEN 0 ELSE i - 1

\* the loop variable after ac.cleanupFns[i]() returned: the error is
\* logged and the loop goes on
afterCleanup(i, failed) == i - 1

\* Shutdown: one pass of the loop over ac.cleanupFns
RunCleanup ==
  /\ result.pc = "cleanup"
  /\ result.i >= 1
  /\ LET fn == input[result.i] IN
       result' = [result EXCEPT !.ran = Append(@, fn.id),
                                !.logged = IF fn.fails THEN Append(@, fn.id) ELSE @,
                                !.i = afterCleanup(result.i, fn.fails)]
  /\ UNCHANGED <<scenario, config, engineVars, th, calls, crashed, trace, applied, served,
                 streamVars, input>>

\* Shutdown: the loop is over, the deferred ac.mu.Unlock()
ShutdownReturns ==
  /\ result.pc = "cleanup"
  /\ result.i = 0
  /\ result' = [result EXCEPT !.pc = "done"]
  /\ UNCHANGED <<scenario, config, engineVars, th, calls, crashed, trace, applied, served,
                 streamVars, input>>

ShutdownNext == AddCleanup \/ ShutdownCancel \/ ShutdownWait \/ RunCleanup \/ ShutdownReturns

ShutdownSpec == ShutdownInit /\ [][ShutdownNext]_vars

(***************************************************************************)
(* One run of the process (package main): main registers its cleanup       *)
(* functions and runs the event loop, and Shutdown is called by main's     *)
(* defer when main returns and by the signal goroutine, which then calls   *)
(* os.Exit.  input is ac.cleanupFns; result holds the place of main and of *)
(* the signal goroutine, the holder of ac.mu, each caller's loop variable, *)
(* whether ac.cancel() was called, how often each function has run, and    *)
(* whether the process has ended.  showAISetupDialog's button, the third   *)
(* caller of Shutdown, belongs to a window that main shows only right      *)
(* before it returns, with no event loop to deliver the click, and only    *)
(* when NewEngine fails, which it never does; it has no action.            *)
(***************************************************************************)
\* the cleanup functions main registers, in order: the database, the AI
\* engine, the GUI
MainCleanups == <<"db", "ai", "gui">>

\* the callers of Shutdown
ShutdownCallers == {"main", "signal"}

ExitInit ==
  /\ scenario = "exit"
  /\ InitEngine /\ InitStream
  /\ input = <<>>
  /\ result = [pc        |-> [main |-> "setup", signal |-> "waiting"],
               mu        |-> "none",
               i         |-> [main |-> 0, signal |-> 0],
               cancelled |-> FALSE,
               runs      |-> [f \in {MainCleanups[k] : k \in 1..Len(MainCleanups)} |-> 0],
               exited    |-> FALSE]

\* main: appCtx.AddCleanup of the next cleanup function, under ac.mu
MainAddCleanup ==
  /\ ~result.exited
  /\ result.pc.main = "setup"
  /\ Len(input) < Len(MainCleanups)
  /\ result.mu = "none"
  /\ input' = Append(input, MainCleanups[Len(input) + 1])
  /\ UNCHANGED <<scenario, config, engineVars, th, calls, crashed, trace, applied, served,
                 streamVars, result>>

\* main: myApp.Run(), the event loop
MainRuns ==
  /\ ~result.exited
  /\ result.pc.main = "setup"
  /\ Len(input) = Len(MainCleanups)
  /\ result' = [result EXCEPT !.pc.main = "run"]
  /\ UNCHANGED <<scenario, config, engineVars, th, calls, crashed, trace, applied, served,
                 streamVars, input>>

\* main: the event loop ends (the window was closed), main is about to
\* return and its deferred appCtx.Shutdown() begins
MainRunReturns ==
  /\ ~result.exited
  /\ result.pc.main = "run"
  /\ result' = [result EXCEPT !.pc.main = "cancel"]
  /\ UNCHANGED <<scenario, config, engineVars, th, calls, crashed, trace, applied, served,
                 streamVars, input>>

\* the signal goroutine: <-sigChan gives SIGINT or SIGTERM, and
\* appCtx.Shutdown() begins
SignalReceived ==
  /\ ~result.exited
  /\ result.pc.signal = "waiting"
  /\ result' = [result EXCEPT !.pc.signal = "cancel"]
  /\ UNCHANGED <<scenario, config, engineVars, th, calls, crashed, trace, applied, served,
                 streamVars, input>>

\* Shutdown: ac.cancel()
CallerCancels(p) ==
  /\ ~result.exited
  /\ result.pc[p] = "cancel"
  /\ result' = [result EXCEPT !.pc[p] = "wait", !.cancelled = TRUE]
  /\ UNCHANGED <<scenario, config, engineVars, th, calls, crashed, trace, applied, served,
                 streamVars, input>>

\* Shutdown: the select on done and time.After (no goroutine is ever added
\* to ac.wg, so ac.wg.Wait() returns at once)
CallerWaits(p) ==
  /\ ~result.exited
  /\ result.pc[p] = "wait"
  /\ result' = [result EXCEPT !.pc[p] = "lock"]
  /\ UNCHANGED <<scenario, config, engineVars, th, calls, crashed, trace, applied, served,
                 streamVars, input>>

\* Shutdown: ac.mu.Lock(), and i := len(ac.cleanupFns) - 1
CallerLocks(p) ==
  /\ ~result.exited
  /\ result.pc[p] = "lock"
  /\ result.mu = "none"
  /\ result' = [result EXCEPT !.pc[p] = "cleanup", !.mu = p, !.i[p] = Len(input)]
  /\ UNCHANGED <<scenario, config, engineVars, th, calls, crashed, trace, applied, served,
                 streamVars, input>>

\* Shutdown: one pass of the loop, ac.cleanupFns[i]() (its error is logged)
CallerRunsCleanup(p) ==
  /\ ~result.exited
  /\ result.pc[p] = "cleanup"
  /\ result.i[p] >= 1
  /\ result' = [result EXCEPT !.i[p] = @ - 1,
                              !.runs[input[result.i[p]]] = @ + 1]
  /\ UNCHANGED <<scenario, config, engineVars, th, calls, crashed, trace, applied, served,
                 streamVars, input>>

\* Shutdown: the loop is over, the deferred ac.mu.Unlock(), return
CallerUnlocks(p) ==
  /\ ~result.exited
  /\ result.pc[p] = "cleanup"
  /\ result.i[p] = 0
  /\ result' = [result EXCEPT !.pc[p] = "returned", !.mu = "none"]
  /\ UNCHANGED <<scenario, config, engineVars, th, calls, crashed, trace, applied, served,
                 streamVars, input>>

\* main returns after its deferred Shutdown, or the signal goroutine calls
\* os.Exit(0) after its Shutdown: the process ends
ProcessExits(p) ==
  /\ ~result.exited
  /\ result.pc[p] = "returned"
  /\ result' = [result EXCEPT !.pc[p] = "exit", !.exited = TRUE]
  /\ UNCHANGED <<scenario, config, engineVars, th, calls, crashed, trace, applied, served,
                 streamVars, input>>

ExitNext ==
  \/ MainAddCleanup \/ MainRuns \/ MainRunReturns \/ SignalReceived
  \/ \E p \in ShutdownCallers :
       \/ CallerCancels(p) \/ CallerWaits(p) \/ CallerLocks(p)
       \/ CallerRunsCleanup(p) \/ CallerUnlocks(p) \/ ProcessExits(p)

ExitSpec == ExitInit /\ [][ExitNext]_vars

(***************************************************************************)
(* The study view (package gui).  Every callback runs on the main thread,  *)
(* one at a time; the goroutines of generateNewProblem and showFeedback    *)
(* hand their results to it with fyne.Do.  result is the StudyView:        *)
(* isGenerating, whether subjectSelect is enabled, whether option buttons  *)
(* are shown, the content of feedbackCard ("text" for feedbackText, "next" *)
(* for the content with the next-problem button, "simple" for that of      *)
(* showSimpleFeedback), the goroutines of each kind in flight and the      *)
(* number of each started so far.                                          *)
(***************************************************************************)
StudyInit ==
  /\ scenario = "study"
  /\ InitEngine /\ InitStream
  /\ input = <<>>
  /\ result = [isGenerating |-> FALSE, selectEnabled |-> TRUE, options |-> FALSE,
               feedbackCard |-> "text", generating |-> 0, answering |-> 0,
               generations |-> 0, feedbacks |-> 0]

\* func (s *StudyView) generateNewProblem: the flag, the select, the option
\* buttons, and the goroutine it starts
generateNewProblem(s) ==
  [s EXCEPT !.isGenerating = TRUE, !.selectEnabled = FALSE, !.options = FALSE,
            !.generating = @ + 1, !.generations = @ + 1]

\* the callback of subjectSelect: `if study.isGenerating { return }`, then
\* startStudySession, which ends with generateNewProblem
SubjectSelected ==
  /\ result.selectEnabled
  /\ ~result.isGenerating
  /\ result.generations < MaxGenerations
  /\ result' = generateNewProblem(result)
  /\ UNCHANGED <<scenario, config, engineVars, th, calls, crashed, trace, applied, served,
                 streamVars, input>>

\* a goroutine of generateNewProblem has its answer from
\* GeneratePersonalizedProblem and its fyne.Do callback runs: with an error
\* the error text is shown, without one displayProblem shows the options
GenerationCompletes ==
  /\ result.generating > 0
  /\ \E failed \in BOOLEAN :
       result' = [result EXCEPT !.generating = @ - 1,
                                !.isGenerating = FALSE,
                                !.selectEnabled = TRUE,
                                !.options = IF failed THEN @ ELSE TRUE]
  /\ UNCHANGED <<scenario, config, engineVars, th, calls, crashed, trace, applied, served,
                 streamVars, input>>

\* an option button is pressed: handleAnswer, which ends with showFeedback
\* and its goroutine
OptionPressed ==
  /\ result.options
  /\ result.feedbacks < MaxGenerations
  /\ result' = [result EXCEPT !.answering = @ + 1, !.feedbacks = @ + 1]
  /\ UNCHANGED <<scenario, config, engineVars, th, calls, crashed, trace, applied, served,
                 streamVars, input>>

\* a goroutine of showFeedback has its answer from GenerateFeedback and its
\* fyne.Do callback runs: with an error showSimpleFeedback, without one the
\* content with the next-problem button
FeedbackCompletes ==
  /\ result.answering > 0
  /\ \E failed \in BOOLEAN :
       result' = [result EXCEPT !.answering = @ - 1,
                                !.feedbackCard = IF failed THEN "simple" ELSE "next"]
  /\ UNCHANGED <<scenario, config, engineVars, th, calls, crashed, trace, applied, served,
                 streamVars, input>>

\* the next-problem button of showFeedback is pressed: generateNewProblem
\* (the button of showSimpleFeedback only writes a log line)
NextProblemPressed ==
  /\ result.feedbackCard = "next"
  /\ result.generations < MaxGenerations
  /\ result' = generateNewProblem(result)
  /\ UNCHANGED <<scenario, config, engineVars, th, calls, crashed, trace, applied, served,
                 streamVars, input>>

StudyNext ==
  \/ SubjectSelected \/ GenerationCompletes \/ OptionPressed \/ FeedbackCompletes
  \/ NextProblemPressed

StudySpec == StudyInit /\ [][StudyNext]_vars

(***************************************************************************)
(* Properties of the coordinator (under Spec).                             *)
(***************************************************************************)
\* the goroutine's call of GeneratePersonalizedProblem has returned
ProblemReturned(t) == th[t].kind = "problem" /\ th[t].pc = "idle"

\* the goroutine is inside getMathProblem's or getEnglishProblem's locked part
Rotating(t) == th[t].pc \in {"rotate", "rotate_load", "rotate_store", "rotate_unlock"}

\* the Problems the offline bank holds for a context
OfflineProblems(context) ==
  IF rotates(context)
  THEN {rotationList(context)[i] : i \in 1..Len(rotationList(context))}
  ELSE {fixedProblem(context)}

\* C1: a GenerateProblem call whose backend attempt fails in transport
\* (request construction, connection, non-200 status, error fragment, read
\* error) applies recordFailure exactly once, never recordSuccess, and returns
\* a Problem of the offline bank for its context with no error.
C1_TransportFailureGivesOfflineProblem ==
  \A t \in Threads :
    th[t].kind = "problem" /\ th[t].gen.err # "nil" =>
      /\ trace[t].failures <= 1
      /\ trace[t].successes = 0
      /\ ProblemReturned(t) =>
           /\ trace[t].failures = 1
           /\ trace[t].lookups = 1
           /\ th[t].ret.err = "nil"
           /\ th[t].ret.problem \in OfflineProblems(th[t].context)

\* a call returned an offline Problem after the read of the body failed
C1_Witness ==
  \E t \in Threads :
    /\ ProblemReturned(t)
    /\ th[t].gen.err = "scan"
    /\ trace[t].failures = 1
    /\ th[t].ret.problem = mathProblemsG2[1]

\* C2: a GenerateProblem call whose backend attempt succeeds in transport but
\* whose text fails parsing or validation applies recordSuccess, returns the
\* error and no Problem, and makes no offline lookup; with one caller the
\* Engine is healthy with failureCount 0 when the call has returned.
C2_ParseFailureIsReturned ==
  \A t \in Threads :
    ( /\ ProblemReturned(t)
      /\ trace[t].attempts = 1
      /\ th[t].gen.err = "nil"
      /\ parseProblemResponse(th[t].gen.text).err # "nil" ) =>
      /\ trace[t].successes = 1
      /\ trace[t].failures = 0
      /\ trace[t].lookups = 0
      /\ th[t].ret.err # "nil"
      /\ th[t].ret.problem = NilProblem
      /\ scenario = "sequential" => isOnline /\ failureCount = 0

\* a call returned the validator's error for a CORRECT past the options
C2_Witness ==
  \E t \in Threads :
    /\ ProblemReturned(t)
    /\ th[t].gen.err = "nil"
    /\ th[t].ret.err = "IndexOutOfRange"
    /\ trace[t].successes = 1
    /\ isOnline

\* the guarantees of a Problem
ValidProblem(p) ==
  /\ Len(p.Options) >= 2
  /\ 0 <= p.CorrectAnswer /\ p.CorrectAnswer < Len(p.Options)
  /\ 1 <= p.Difficulty /\ p.Difficulty <= 5
  /\ p.EstimatedTime > 0

\* every Problem of the offline bank
BankProblems ==
  UNION { {mathProblems(g)[i] : i \in 1..Len(mathProblems(g))} : g \in mathGrades }
  \cup {englishProblems[i] : i \in 1..Len(englishProblems)}
  \cup {mathDefaultProblem, japaneseProblem, scienceProblem, socialStudiesProblem,
        generalProblem}

\* C3: every Problem GenerateProblem returns without error, from the backend
\* or from the offline bank, has at least two options, a CorrectAnswer that
\* indexes them, a Difficulty from 1 to 5 and a positive EstimatedTime.
C3_ReturnedProblemIsValid ==
  /\ \A t \in Threads :
       ProblemReturned(t) /\ th[t].ret.err = "nil" => ValidProblem(th[t].ret.problem)
  /\ \A p \in BankProblems : ValidProblem(p)

\* a call returned a backend Problem whose TIME was not positive
C3_Witness ==
  \E t \in Threads :
    /\ ProblemReturned(t)
    /\ th[t].gen.err = "nil"
    /\ th[t].ret.err = "nil"
    /\ th[t].ret.problem.EstimatedTime = DefaultEstimatedTime
    /\ th[t].ret.problem.CorrectAnswer = 0

\* C4: whatever isOnline and failureCount are, a call that is past
\* shouldTryAI (and did not panic building its prompt) has called e.generate;
\* in particular every offline lookup comes after a failed backend attempt of
\* the same call.
C4_StateNeverGatesTheAttempt ==
  \A t \in Threads :
    /\ ( /\ th[t].kind # "none"
         /\ th[t].pc \notin {"shouldTryAI", "shouldTryAI_return", "panic"} )
       => trace[t].attempts = 1
    /\ (trace[t].lookups > 0 \/ Rotating(t))
       => trace[t].attempts = 1 /\ th[t].gen.err # "nil"

\* a request is in flight while the Engine is unhealthy after three failures
C4_Witness ==
  /\ ~isOnline
  /\ failureCount >= 3
  /\ \E t \in Threads : th[t].pc = "generate" /\ trace[t].attempts = 1

\* C5: when recordFailure has made its writes the Engine is unhealthy and
\* failureCount is one more than recordFailure found it; when recordSuccess
\* has made its writes the Engine is healthy and failureCount is 0, whatever
\* it was.
C5_RecordFailureAndRecordSuccess ==
  \A t \in Threads :
    /\ th[t].pc = "recordFailure_unlock"
       => ~isOnline /\ failureCount = th[t].snap + 1
    /\ th[t].pc = "recordSuccess_unlock"
       => isOnline /\ failureCount = 0

\* recordSuccess has restored an Engine that had failed twice
C5_Witness ==
  \E t \in Threads :
    /\ th[t].pc = "recordSuccess_unlock"
    /\ th[t].snap >= 2
    /\ isOnline
    /\ failureCount = 0

\* C6: whenever no goroutine is inside an update, failureCount is the number
\* of recordFailures applied since the last recordSuccess (none is lost), and
\* isOnline is true exactly if that number is 0: no part of an update shows.
C6_UpdatesAreAtomic ==
  mu.writer = NoGoroutine =>
    /\ failureCount = applied
    /\ isOnline = (failureCount = 0)

\* two calls in flight at once have both recorded their failure
C6_Witness ==
  /\ scenario = "concurrent"
  /\ mu.writer = NoGoroutine
  /\ failureCount = 2
  /\ \A t \in Threads : th[t].pc = "rotate" /\ trace[t].failures = 1

\* the lists the rotation counters index
RotatingLists == {mathProblems(g) : g \in mathGrades} \cup {englishProblems}

\* C10: for each rotation key with a list of N entries, the lookups return
\* the entries in list order starting with the first, wrapping after the last:
\* N lookups in a row return N different entries and the one after them
\* returns the same entry as the first of them.
C10_RoundRobin ==
  /\ \A key \in DOMAIN served :
       LET n  == served[key].length
           ps == served[key].positions
       IN  /\ ps[1] = 1
           /\ \A i \in 1..(Len(ps) - 1) : ps[i + 1] = (ps[i] % n) + 1
           /\ \A i, j \in 1..Len(ps) :
                /\ (i < j /\ j < i + n) => ps[i] # ps[j]
                /\ j = i + n => ps[i] = ps[j]
  /\ \A list \in RotatingLists :
       \A i, j \in 1..Len(list) : i # j => list[i] # list[j]

\* a list of three has been gone through and its first entry returned again
C10_Witness ==
  \E key \in DOMAIN served :
    /\ served[key].length = 3
    /\ served[key].positions = <<1, 2, 3, 1>>

\* C11: with one caller, the k-th GenerateProblem for mathematics, grade 3,
\* whose backend attempt fails returns the k-th entry of that key's list with
\* no error, for k = 1 and k = 2; on a fresh Engine these are the first two
\* calls.
C11_FirstThenSecondEntry ==
  \A t \in Threads :
    LET key == rotationKey(StudyContext(Suugaku, 3)) IN
    ( /\ scenario = "sequential"
      /\ ProblemReturned(t)
      /\ th[t].context = StudyContext(Suugaku, 3)
      /\ th[t].gen.err # "nil"
      /\ key \in DOMAIN served
      /\ Len(served[key].positions) \in {1, 2} ) =>
      /\ th[t].ret.err = "nil"
      /\ th[t].ret.problem = mathProblemsG3[Len(served[key].positions)]

\* the second call of a fresh Engine, the backend unreachable both times,
\* has returned the second entry
C11_Witness ==
  \E t \in Threads :
    /\ calls = 2
    /\ failureCount = 2
    /\ ProblemReturned(t)
    /\ th[t].context = StudyContext(Suugaku, 3)
    /\ th[t].gen.err = "http"
    /\ served[rotationKey(StudyContext(Suugaku, 3))].positions = <<1, 2>>
    /\ th[t].ret = Returned(mathProblemsG3[2], NilFeedback, "nil")

\* a (subject, grade) pair without a list: a subject generateOfflineProblem
\* has no case for, or mathematics with a grade that has no entries
HasNoList(context) ==
  \/ context.Subject \notin {Suugaku, Sansuu, Eigo, Kokugo, Rika, Shakai}
  \/ context.Subject \in {Suugaku, Sansuu} /\ context.Grade \notin mathGrades

\* C12 as stated: every pair without a list resolves to one and the same
\* generic Problem (the one an unknown subject resolves to), without error.
C12_OneGenericProblem ==
  \A t \in Threads :
    (ProblemReturned(t) /\ th[t].gen.err # "nil" /\ HasNoList(th[t].context)) =>
      th[t].ret = Returned(generalProblem, NilFeedback, "nil")

\* C12, amended: a pair without a list resolves to a fixed Problem that
\* depends on the subject alone, the generic Problem for an unknown subject
\* and the basic-arithmetic default for mathematics and arithmetic, and the
\* lookup never fails.
C12_FixedProblemPerSubject ==
  \A t \in Threads :
    (ProblemReturned(t) /\ th[t].gen.err # "nil" /\ HasNoList(th[t].context)) =>
      /\ trace[t].lookups = 1
      /\ th[t].ret = Returned(IF th[t].context.Subject \in {Suugaku, Sansuu}
                              THEN mathDefaultProblem ELSE generalProblem,
                              NilFeedback, "nil")

\* mathematics with a grade that has no list has resolved to its default
C12_Witness ==
  \E t \in Threads :
    /\ ProblemReturned(t)
    /\ th[t].gen.err # "nil"
    /\ th[t].context = StudyContext(Suugaku, 0)
    /\ th[t].ret.problem = mathDefaultProblem
    /\ mathDefaultProblem # generalProblem

(***************************************************************************)
(* Properties of the streaming client (under StreamSpec).                  *)
(***************************************************************************)
\* a line that decodes into an OllamaResponse without error
IsFragment(line) == line.kind = "object"

\* a line that is valid JSON (or empty)
IsJSON(line) == line.kind # "invalid"

\* the fragments of a body, in order
Fragments(lines) == SelectSeq(lines, IsFragment)

\* the fragments up to and including the first one with the done flag, all of
\* them if there is none
UpToDone(frs) ==
  IF \E i \in 1..Len(frs) : frs[i].done
  THEN SubSeq(frs, 1, CHOOSE i \in 1..Len(frs) :
                        frs[i].done /\ \A j \in 1..(i - 1) : ~frs[j].done)
  ELSE frs

\* whether one of the fragments carries an error, and the first that does
HasError(frs) == \E i \in 1..Len(frs) : frs[i].error # <<>>

FirstError(frs) ==
  frs[CHOOSE i \in 1..Len(frs) :
        frs[i].error # <<>> /\ \A j \in 1..(i - 1) : frs[j].error = <<>>].error

\* the texts of the fragments, put together in order
TextOf(frs) == Concat([i \in 1..Len(frs) |-> frs[i].response])

\* C7 as stated: for a stream with no error fragment, read without a read
\* error, the result is exactly the texts of the fragments up to and including
\* the first done fragment, put together in order.
C7_ExactConcatenation ==
  (outcome.made /\ ~body.scanErr /\ ~HasError(Fragments(body.lines))) =>
    /\ outcome.result.err = "nil"
    /\ outcome.result.text = TextOf(UpToDone(Fragments(body.lines)))

\* C7, amended: for a stream with no error fragment, read without a read
\* error, the result is the texts of the fragments up to and including the
\* first done fragment, put together in order, with the white space at its
\* two ends removed.
C7_TrimmedConcatenation ==
  (outcome.made /\ ~body.scanErr /\ ~HasError(Fragments(body.lines))) =>
    /\ outcome.result.err = "nil"
    /\ outcome.result.text = TrimSpace(TextOf(UpToDone(Fragments(body.lines))))

\* the fragments "A", "B", "C" (done) give "ABC"
C7_Witness ==
  /\ outcome.made
  /\ body.lines = << Fragment(<<"A">>, FALSE), Fragment(<<"B">>, FALSE),
                     Fragment(<<"C">>, TRUE) >>
  /\ outcome.result = GenResult(<<"A", "B", "C">>, "nil", <<>>)

\* C8 as stated: if any fragment of the stream carries an error, the call
\* fails with an error carrying that message and returns no text.
C8_AnyErrorFragmentFails ==
  (outcome.made /\ HasError(Fragments(body.lines))) =>
    /\ outcome.result.err = "ollama"
    /\ outcome.result.text = <<>>

\* C8, amended: if a fragment up to and including the first done fragment
\* carries an error, the call fails with the message of the first such
\* fragment and returns none of the text read before it.
C8_ErrorFragmentBeforeDoneFails ==
  (outcome.made /\ HasError(UpToDone(Fragments(body.lines)))) =>
    /\ outcome.result.err = "ollama"
    /\ outcome.result.msg = FirstError(UpToDone(Fragments(body.lines)))
    /\ outcome.result.text = <<>>

\* text, then an error fragment: the call fails and the text is gone
C8_Witness ==
  /\ outcome.made
  /\ body.lines = << Fragment(<<"A">>, FALSE), ErrorFragment(<<"f">>) >>
  /\ outcome.result = GenResult(<<>>, "ollama", <<"f">>)

\* C9: the result for a body is the result for the same body without its
\* lines that are not valid JSON.
C9_MalformedLinesAreSkipped ==
  outcome.made =>
    outcome.result = generate(Reply("body", StatusOK, SelectSeq(body.lines, IsJSON),
                                    body.scanErr))

\* a line that is no JSON between two fragments
C9_Witness ==
  /\ outcome.made
  /\ body.lines = << Fragment(<<"A">>, FALSE), Line("invalid", <<>>, FALSE, <<>>),
                     Fragment(<<"B">>, TRUE) >>
  /\ outcome.result = GenResult(<<"A", "B">>, "nil", <<>>)

(***************************************************************************)
(* Properties of the response parser (under ParserSpec).                   *)
(***************************************************************************)
\* the lines with a colon, and the last of them before a line
Heads(lines) == {i \in 1..Len(lines) : Contains(lines[i], <<":">>)}

\* the text of a line before its first colon, and after it
BeforeColon(line) == SubSeq(line, 1, Index(line, <<":">>))
AfterColon(line) == SubSeq(line, Index(line, <<":">>) + 2, Len(line))

\* the line with a colon that follows line i, the end of the text if none does
NextHead(lines, i) ==
  LET later == {j \in Heads(lines) : j > i}
  IN  IF later = {} THEN Len(lines) + 1
      ELSE CHOOSE j \in later : \A k \in later : j <= k

\* the text after the colon of line i and the lines that follow it up to the
\* next line with a colon, each after a newline
ValueFrom(lines, i) ==
  AfterColon(lines[i])
  \o Concat([j \in 1..(NextHead(lines, i) - i - 1) |-> <<"\n">> \o lines[i + j]])

\* the last line with a colon whose key (trimmed) is k
LastHead(lines, k) ==
  LET mine == {i \in Heads(lines) : TrimSpace(BeforeColon(lines[i])) = k}
  IN  CHOOSE i \in mine : \A j \in mine : i >= j

\* the mapping as C13 states it, from the lines as they are
StatedFields(lines) ==
  [k \in {TrimSpace(BeforeColon(lines[i])) : i \in Heads(lines)} |->
     ValueFrom(lines, LastHead(lines, k))]

\* the lines the parser works on: without code fences, trimmed, none empty
CleanLine(line) == TrimSpace(ReplaceAll(line, CodeFence, <<>>))
NotEmpty(line) == line # <<>>
CleanLines(lines) == SelectSeq([i \in 1..Len(lines) |-> CleanLine(lines[i])], NotEmpty)

\* the mapping as amended: from the clean lines, no field for an empty key,
\* the values trimmed
TrimmedFields(lines) ==
  LET clean == CleanLines(lines) IN
  [k \in {TrimSpace(BeforeColon(clean[i])) : i \in Heads(clean)} \ {<<>>} |->
     TrimSpace(ValueFrom(clean, LastHead(clean, k)))]

\* two maps with the same keys and the same values
SameMap(f, g) == DOMAIN f = DOMAIN g /\ \A k \in DOMAIN f : f[k] = g[k]

\* C13 as stated: the map has a field for each line with a colon, its key
\* the trimmed text before the first colon, its value the text after it and
\* the colon-free lines that follow, each after a newline; the last of a
\* repeated key stands; colon-free lines before any key are dropped.
C13_FieldsAsStated ==
  result.made => SameMap(result.fields, StatedFields(input))

\* C13, amended: the same of the lines after code fences are removed, each
\* line is trimmed and empty lines are left out, with the values trimmed and
\* no field for a line whose key is empty (such a line closes the open field
\* and opens none).
C13_FieldsOfCleanLines ==
  result.made => SameMap(result.fields, TrimmedFields(input))

\* "K: v", a continuation line and the key again: the last value stands
C13_Witness ==
  /\ result.made
  /\ input = << <<"K", ":", " ", "v">>, <<"c">>, <<"K", ":", "w">> >>
  /\ DOMAIN result.fields = {<<"K">>}
  /\ result.fields[<<"K">>] = <<"w">>

(***************************************************************************)
(* Properties of the round trip (under RoundTripSpec).                     *)
(***************************************************************************)
\* the parsed map has every field of the record, with its value
Reproduced(record, fields) ==
  /\ DOMAIN fields = {record[i][1] : i \in 1..Len(record)}
  /\ \A i \in 1..Len(record) : fields[record[i][1]] = record[i][2]

\* a value the layout can carry: empty, or without a code fence, each of its
\* lines non-empty and without white space at its ends, and no colon after
\* its first line
CarriedValue(value) ==
  LET lines == Split(value, "\n") IN
  \/ value = <<>>
  \/ /\ ~Contains(value, CodeFence)
     /\ \A i \in 1..Len(lines) : lines[i] # <<>> /\ TrimSpace(lines[i]) = lines[i]
     /\ \A i \in 2..Len(lines) : ~Contains(lines[i], <<":">>)

\* C14 as stated: parsing the rendered record gives back every field's value.
C14_RoundTrip ==
  result.made => Reproduced(input, result.fields)

\* C14, amended: parsing the rendered record gives back every field's value
\* when every value is one the layout can carry (no code fence, no empty
\* line, no white space at the ends of a line, no colon after the first line).
C14_RoundTripOfCarriedValues ==
  (result.made /\ \A i \in 1..Len(input) : CarriedValue(input[i][2])) =>
    Reproduced(input, result.fields)

\* a record with a value of three lines has come back as it was
C14_Witness ==
  /\ result.made
  /\ input = << <<TITLE, <<"v">>>>, <<EXPLANATION, <<"a", "\n", "b", "\n", "c">>>> >>
  /\ result.fields[EXPLANATION] = <<"a", "\n", "b", "\n", "c">>
  /\ result.fields[TITLE] = <<"v">>


(***************************************************************************)
(* Properties of the validator (under ReplySpec).                          *)
(***************************************************************************)
\* the fields of the reply and the Problem parseProblemResponse builds
\* from them, before validateProblem judges it
ReplyFields == parseKeyValueResponse(ReplyText(input))
ParsedProblem == problemFromFields(ReplyFields)

\* the defects of a Problem
MissingField(p) == p.Title = <<>> \/ p.Description = <<>>
IndexOutside(p) == p.CorrectAnswer < 0 \/ p.CorrectAnswer >= Len(p.Options)
DifficultyOutside(p) == p.Difficulty < 1 \/ p.Difficulty > 5
Defective(p) == MissingField(p) \/ IndexOutside(p) \/ DifficultyOutside(p)

\* C15: a parsed Problem with an empty title or an empty description is
\* rejected for the missing field; one with these and at least two options
\* whose correct-answer index is outside [0, len(options)) is rejected for
\* the index; one whose difficulty is outside [1,5], the earlier checks
\* passed, is rejected for the difficulty; and no Problem with any of these
\* defects is returned: the call returns an error and a nil Problem.
C15_DefectsRejected ==
  result.parsed /\ DOMAIN ReplyFields # {} =>
    LET p == ParsedProblem IN
    /\ MissingField(p) => result.err \in {"MissingTitle", "MissingDescription"}
    /\ ~MissingField(p) /\ Len(p.Options) >= 2 /\ IndexOutside(p)
         => result.err = "IndexOutOfRange"
    /\ ~MissingField(p) /\ Len(p.Options) >= 2 /\ ~IndexOutside(p) /\ DifficultyOutside(p)
         => result.err = "DifficultyOutOfRange"
    /\ Defective(p) => result.err # "nil" /\ result.problem = NilProblem
    /\ result.err = "nil" => ~Defective(result.problem)

\* a reply whose only defect is CORRECT: 5 has been rejected for the index
C15_Witness ==
  /\ result.parsed
  /\ input.title # Absent /\ input.description = PlainDescription
  /\ input.correct = <<"5">> /\ input.difficulty = <<"5">>
  /\ result.err = "IndexOutOfRange" /\ result.problem = NilProblem

\* the OPTION1..OPTION4 lines the reply has
SuppliedOptions == {i \in 1..4 : input.options[i] # Absent}

\* C16: a reply with fewer than two of the OPTION1..OPTION4 fields is
\* rejected, as InsufficientOptions when it has a title and a description,
\* and produces no returned Problem.
C16_FewOptionsRejected ==
  result.parsed /\ Cardinality(SuppliedOptions) < 2 =>
    /\ result.err # "nil"
    /\ result.problem = NilProblem
    /\ input.title # Absent /\ input.description # Absent
         => result.err = "InsufficientOptions"

\* the TIME lines that give no positive number
NoPositiveTime == {Absent, <<"0">>, <<"-", "5">>, <<"a", "b", "c">>}

\* C17: a reply whose TIME is absent, not a number or not positive is
\* rejected exactly when the same reply with TIME: 90 is, with the same
\* error; when it is accepted the returned Problem has EstimatedTime 300
\* and every other field as parsed.
C17_TimeDefaulted ==
  result.parsed /\ input.time \in NoPositiveTime =>
    LET timed == parseProblemResponse(ReplyText([input EXCEPT !.time = <<"9", "0">>])) IN
    /\ DOMAIN ReplyFields # {} => result.err = timed.err
    /\ result.err = "nil" =>
         /\ result.problem.EstimatedTime = 300
         /\ result.problem = [ParsedProblem EXCEPT !.EstimatedTime = 300]
         /\ result.problem = [timed.problem EXCEPT !.EstimatedTime = 300]

\* a reply with TIME: -5 has been accepted with EstimatedTime 300
C17_Witness ==
  /\ result.parsed /\ input.time = <<"-", "5">>
  /\ result.err = "nil" /\ result.problem.EstimatedTime = 300
  /\ ParsedProblem.EstimatedTime = -5

\* the description has a phrase of forbiddenPhrases
HasForbiddenPhrase(d) == \E i \in 1..Len(forbiddenPhrases) : Contains(d, forbiddenPhrases[i])

\* the description has a keyword of the validator
JudgedQuantitative(d) == \E k \in ValidatorMathKeywords : Contains(d, k)

\* C18: a Problem without defects whose description has a phrase of the
\* blocklist is rejected as ForbiddenReference if and only if the
\* description has a keyword of the validator, and is accepted otherwise.
C18_ForbiddenIffQuantitative ==
  result.parsed /\ ~Defective(ParsedProblem)
    /\ HasForbiddenPhrase(ParsedProblem.Description) =>
      /\ result.err = "ForbiddenReference" <=> JudgedQuantitative(ParsedProblem.Description)
      /\ ~JudgedQuantitative(ParsedProblem.Description)
           => result.err = "nil" /\ result.problem.Description = ParsedProblem.Description

\* a reply whose description is the phrase alone has been accepted
C18_Witness ==
  /\ result.parsed /\ input.description = ReferenceDescription
  /\ result.err = "nil" /\ result.problem.Description = ReferenceDescription

\* the number an option starts with, -1 when it starts with no digit
LeadingDigits(s) ==
  CHOOSE n \in 0..Len(s) :
    /\ \A j \in 1..n : s[j] \in Digits
    /\ n = Len(s) \/ s[n + 1] \notin Digits
LeadingNumber(s) ==
  IF LeadingDigits(s) = 0 THEN -1 ELSE DecimalValue(SubSeq(s, 1, LeadingDigits(s)))

\* the description names an isosceles triangle, an angle of 45 degrees and
\* the angle B
Archetype(d) ==
  Contains(d, IsoscelesTriangle) /\ Contains(d, FortyFiveDegrees) /\ Contains(d, AngleB)

\* the option at the correct-answer index
CorrectOption(p) == p.Options[p.CorrectAnswer + 1]

\* C19: a Problem without other defects whose description matches the
\* isosceles archetype is accepted only if the option at the
\* correct-answer index is the number 90; with 60 it is rejected as
\* GeometricInconsistency and with 90 it is accepted.
C19_AcceptedOnlyIfNinety ==
  result.parsed /\ ~Defective(ParsedProblem) /\ Archetype(ParsedProblem.Description)
    /\ ~HasForbiddenPhrase(ParsedProblem.Description) =>
      /\ result.err = "nil" => LeadingNumber(CorrectOption(ParsedProblem)) = 90
      /\ LeadingNumber(CorrectOption(ParsedProblem)) = 60
           => result.err = "GeometricInconsistency"
      /\ LeadingNumber(CorrectOption(ParsedProblem)) = 90 => result.err = "nil"

\* C20: buildFeedbackPrompt judges the description of a Problem
\* quantitative exactly when validateProblem does.
C20_SameHeuristic ==
  result.classified =>
    (result.quantitative <=> validatorIsMath(result.problem.Description))


(***************************************************************************)
(* Further properties of the coordinator (under Spec).                     *)
(***************************************************************************)
\* the goroutine's call of GenerateFeedback has returned
FeedbackReturned(t) == th[t].kind = "feedback" /\ th[t].pc = "idle"

\* C24: a GenerateFeedback call whose backend attempt fails applies
\* recordFailure once and never recordSuccess, makes no lookup in a
\* rotating list and never enters the locked part that moves a rotation
\* counter, and returns with no error the offline FeedbackResponse that
\* the request's IsCorrect alone selects: one template for a correct
\* answer, another for an incorrect one.
C24_FeedbackFailureGivesTemplate ==
  /\ \A t \in Threads :
       th[t].kind = "feedback" /\ th[t].gen.err # "nil" =>
         /\ trace[t].successes = 0
         /\ trace[t].lookups = 0
         /\ ~Rotating(t)
         /\ FeedbackReturned(t) =>
              /\ trace[t].failures = 1
              /\ th[t].ret.err = "nil"
              /\ th[t].ret.problem = NilProblem
              /\ th[t].req.IsCorrect => th[t].ret.feedback = offlineFeedbackCorrect
              /\ ~th[t].req.IsCorrect => th[t].ret.feedback = offlineFeedbackIncorrect
  /\ offlineFeedbackCorrect # offlineFeedbackIncorrect

\* a call for a correct answer returned the template for correct answers
\* after the backend answered with a status other than 200
C24_Witness ==
  \E t \in Threads :
    /\ FeedbackReturned(t)
    /\ th[t].gen.err = "status"
    /\ th[t].req.IsCorrect
    /\ trace[t].failures = 1
    /\ th[t].ret = Returned(NilProblem, offlineFeedbackCorrect, "nil")

\* the errors of parseProblemResponse and parseFeedbackResponse
ParseOrValidationErrors ==
  {"ParseError", "MissingTitle", "MissingDescription", "InsufficientOptions",
   "IndexOutOfRange", "DifficultyOutOfRange", "ForbiddenReference",
   "GeometricInconsistency"}

\* C25: a call returns a non-nil error only when e.generate returned
\* without error and the call applied recordSuccess and no recordFailure,
\* and the error is then one of parsing or validation, with no Problem and
\* no FeedbackResponse; a call that applied recordFailure returns no error.
C25_ErrorOnlyAfterSuccess ==
  \A t \in Threads :
    th[t].pc = "idle" /\ th[t].kind # "none" =>
      /\ th[t].ret.err # "nil" =>
           /\ th[t].gen.err = "nil"
           /\ trace[t].successes = 1
           /\ trace[t].failures = 0
           /\ th[t].ret.err \in ParseOrValidationErrors
           /\ th[t].ret.problem = NilProblem
           /\ th[t].ret.feedback = NilFeedback
      /\ trace[t].failures >= 1 => th[t].ret.err = "nil"

\* a GenerateFeedback call returned the parser's error for a text without
\* fields, after recordSuccess
C25_Witness ==
  \E t \in Threads :
    /\ FeedbackReturned(t)
    /\ th[t].ret.err = "ParseError"
    /\ th[t].gen.err = "nil"
    /\ trace[t].successes = 1

\* the call is past e.generate
PastGenerate(t) ==
  th[t].kind # "none"
    /\ th[t].pc \notin {"shouldTryAI", "shouldTryAI_return", "generate", "panic"}

\* C26 as stated: every call sends exactly one POST request.
C26_ExactlyOnePost ==
  \A t \in Threads : PastGenerate(t) => trace[t].posts = 1

\* C26: every call calls e.generate once, at its start, and never again:
\* from the failure of the attempt on, the call makes no further attempt.
\* The attempt sends one POST request, unless the request could not be
\* built, and then it sends none.
C26_OneAttemptAtMostOnePost ==
  \A t \in Threads :
    /\ trace[t].attempts <= 1
    /\ trace[t].posts <= trace[t].attempts
    /\ PastGenerate(t) =>
         /\ trace[t].attempts = 1
         /\ trace[t].posts = 1 <=> th[t].gen.err # "request"

\* a call whose request was sent and failed is in the offline fallback,
\* with its one request behind it
C26_Witness ==
  \E t \in Threads :
    /\ Rotating(t)
    /\ th[t].gen.err = "http"
    /\ trace[t].attempts = 1
    /\ trace[t].posts = 1

\* C27: the lookups of one key, from however many goroutines, take the
\* counter one after the other: while no goroutine is inside the locked
\* part, the counter of a key is, modulo the length of its list, the number
\* of lookups made for it (so K lookups advance it by K), and the goroutines that have each returned
\* from a lookup of the same key, none of them having called again, hold
\* different entries when the list is as long as they are many.
C27_CounterUpdateIsAtomic ==
  (\A t \in Threads : th[t].pc \notin {"rotate_load", "rotate_store", "rotate_unlock"}) =>
    /\ \A key \in DOMAIN served :
         MapGetInt(problemIndex, key) % served[key].length
           = Len(served[key].positions) % served[key].length
    /\ DOMAIN problemIndex = DOMAIN served
    /\ \A t1, t2 \in Threads :
         ( /\ t1 # t2
           /\ scenario = "concurrent"
           /\ calls = Cardinality(Threads)
           /\ ProblemReturned(t1) /\ ProblemReturned(t2)
           /\ trace[t1].lookups = 1 /\ trace[t2].lookups = 1
           /\ rotates(th[t1].context) /\ rotates(th[t2].context)
           /\ rotationKey(th[t1].context) = rotationKey(th[t2].context)
           /\ Len(rotationList(th[t1].context)) >= Cardinality(Threads) )
         => th[t1].ret.problem # th[t2].ret.problem

\* two goroutines were in the fallback for one key at once and have
\* returned the two entries of its list; the counter is at 2
C27_Witness ==
  /\ scenario = "concurrent"
  /\ calls = 2
  /\ \A t \in Threads :
       /\ ProblemReturned(t) /\ th[t].context = StudyContext(Suugaku, 2)
       /\ trace[t].lookups = 1
  /\ {th[t].ret.problem : t \in Threads} = {mathProblemsG2[1], mathProblemsG2[2]}
  /\ MapGetInt(problemIndex, rotationKey(StudyContext(Suugaku, 2))) = 2

\* the goroutine's call was cancelled while generate read the body: the
\* read failed, with one caller, so that every step is a step of this call
Cancelled(t) ==
  scenario = "sequential" /\ th[t].gen.err = "scan" /\ th[t].pc # "idle"

\* C23 as stated: no step of a call cancelled during the read of the body
\* changes Engine state other than the connection state.
C23_OnlyConnectionStateChanges ==
  [][\A t \in Threads : Cancelled(t) => problemIndex' = problemIndex]_vars

\* C23: a call cancelled during the read of the body returns, without
\* error, what the offline bank holds for its argument, never what the
\* text read so far would parse to; besides the connection state its steps
\* change one thing only: the offline lookup of a GenerateProblem call for
\* a context with a rotating list moves the counter of that list's key to
\* the position after the entry it returns.
C23_CancelledCallFallsBack ==
  [][\A t \in Threads : Cancelled(t) =>
       /\ problemIndex' # problemIndex =>
            /\ th[t].kind = "problem" /\ rotates(th[t].context)
            /\ th[t].pc = "rotate_store"
            /\ problemIndex' = MapPut(problemIndex, rotationKey(th[t].context),
                                      rotationIndex(problemIndex, rotationKey(th[t].context),
                                                    rotationList(th[t].context)) + 1)
       /\ th'[t].pc = "idle" =>
            /\ th'[t].ret.err = "nil"
            /\ trace'[t].successes = 0
            /\ th[t].kind = "problem"
                 => th'[t].ret.problem \in OfflineProblems(th[t].context)
            /\ th[t].kind = "feedback"
                 => th'[t].ret.feedback \in {offlineFeedbackCorrect, offlineFeedbackIncorrect}]_vars

\* a cancelled call for mathematics, grade 2, has returned the first entry
\* of the list and left the counter at 1 and the Engine unhealthy
C23_Witness ==
  \E t \in Threads :
    /\ scenario = "sequential"
    /\ calls = 1
    /\ ProblemReturned(t)
    /\ th[t].gen.err = "scan"
    /\ th[t].ret.problem = mathProblemsG2[1]
    /\ MapGetInt(problemIndex, rotationKey(StudyContext(Suugaku, 2))) = 1
    /\ ~isOnline /\ failureCount = 1

(***************************************************************************)
(* Properties of the locking (under FairSpec).                             *)
(***************************************************************************)
\* the goroutine holds e.mu, for writing or for reading
Holds(t) == mu.writer = t \/ t \in mu.readers

\* the goroutine is about to call e.mu.Lock() or e.mu.RLock()
Acquiring(t) == th[t].pc \in {"shouldTryAI", "recordFailure", "recordSuccess", "rotate"}

\* C22: a goroutine that asks for the Engine's lock does not hold it, and
\* one whose request is with the backend does not hold it either; every
\* call returns, however many run at once (unless a panic ends the
\* process), and a goroutine outside a call holds no lock: every
\* acquisition is released.
C22_NoDeadlock ==
  /\ [](\A t \in Threads :
          (Acquiring(t) \/ th[t].pc \in {"generate", "idle"}) => ~Holds(t))
  /\ \A t \in Threads : (th[t].pc # "idle") ~> (th[t].pc = "idle" \/ crashed)

\* one goroutine holds the lock in recordFailure while the other waits for
\* it in recordSuccess
C22_Witness ==
  \E t1, t2 \in Threads :
    /\ mu.writer = t1 /\ th[t1].pc = "recordFailure_store"
    /\ th[t2].pc = "recordSuccess" /\ ~Holds(t2)

(***************************************************************************)
(* Further properties of the parser and the validator (under ReplySpec).   *)
(***************************************************************************)
\* the CORRECT lines that name one of the four options, with the number
\* they state
OptionNumbers == { <<<<"1">>, 1>>, <<<<"2">>, 2>>, <<<<"3">>, 3>>, <<<<"4">>, 4>> }

\* C28: for a reply with a title and a description, CORRECT: k with k from
\* 1 to 4 is never rejected for the index, and the returned Problem has
\* CorrectAnswer k-1; a reply without CORRECT, or with an empty one, is not
\* rejected for the index either and the returned Problem has
\* CorrectAnswer 0; CORRECT: 0, CORRECT: 5 and a CORRECT that is no number
\* are rejected as IndexOutOfRange.
C28_CorrectIsOneBased ==
  result.parsed /\ input.title # Absent /\ input.description # Absent =>
    /\ \A pair \in OptionNumbers :
         input.correct = pair[1] =>
           /\ result.err # "IndexOutOfRange"
           /\ result.err = "nil" => result.problem.CorrectAnswer = pair[2] - 1
    /\ input.correct \in {Absent, <<>>} =>
         /\ result.err # "IndexOutOfRange"
         /\ result.err = "nil" => result.problem.CorrectAnswer = 0
    /\ input.correct \in {<<"0">>, <<"5">>, <<"x">>} =>
         result.err = "IndexOutOfRange" /\ result.problem = NilProblem

\* a reply with CORRECT: 4 has been accepted with CorrectAnswer 3
C28_Witness ==
  /\ result.parsed /\ input.correct = <<"4">>
  /\ result.err = "nil" /\ result.problem.CorrectAnswer = 3

(***************************************************************************)
(* Further properties of the streaming client (under StreamSpec).          *)
(***************************************************************************)
\* the line is a fragment with the done flag
IsDone(line) == IsFragment(line) /\ line.done

\* the lines of a body up to and including the first fragment with the
\* done flag, all of them if there is none
ThroughDone(lines) ==
  IF \E i \in 1..Len(lines) : IsDone(lines[i])
  THEN SubSeq(lines, 1, CHOOSE i \in 1..Len(lines) :
                          IsDone(lines[i]) /\ \A j \in 1..(i - 1) : ~IsDone(lines[j]))
  ELSE lines

\* C30: what follows the first fragment with the done flag has no effect:
\* the result for a body is the result for the same body cut after that
\* fragment, whatever text or error the fragments after it carry.
C30_NothingAfterDoneIsRead ==
  outcome.made =>
    outcome.result = generate(Reply("body", StatusOK, ThroughDone(body.lines), body.scanErr))

\* a done fragment followed by a fragment with text and one with an error:
\* the result is the text of the first
C30_Witness ==
  /\ outcome.made
  /\ body.lines = << Fragment(<<"A">>, TRUE), Fragment(<<"B">>, FALSE), ErrorFragment(<<"f">>) >>
  /\ outcome.result = GenResult(<<"A">>, "nil", <<>>)

\* the body ends with no fragment that has the done flag and none that
\* carries an error, and was read to its end
EndsUnfinished ==
  /\ ~body.scanErr
  /\ \A i \in 1..Len(body.lines) :
       IsFragment(body.lines[i]) => (~body.lines[i].done /\ body.lines[i].error = <<>>)

\* C31: a stream that ends without a done fragment and without an error
\* fragment is a successful transport: generate returns no error and the
\* text accumulated from all its fragments (trimmed, as generate returns
\* every text), and the caller's `if err != nil` sends the call on to
\* recordSuccess and the parser, not to recordFailure and the offline bank.
C31_UnfinishedStreamSucceeds ==
  (outcome.made /\ EndsUnfinished) =>
    /\ outcome.result.err = "nil"
    /\ outcome.result.text = TrimSpace(TextOf(Fragments(body.lines)))
    /\ afterGenerate(outcome.result) = "recordSuccess"

\* the fragments "A" and "B", neither done, then the end of the body
C31_Witness ==
  /\ outcome.made
  /\ ~body.scanErr
  /\ body.lines = << Fragment(<<"A">>, FALSE), Fragment(<<"B">>, FALSE) >>
  /\ outcome.result = GenResult(<<"A", "B">>, "nil", <<>>)

(***************************************************************************)
(* Properties of AppContext (under ShutdownSpec).                          *)
(***************************************************************************)
\* the numbers of the registered functions from the last down to the one
\* after the n-th from the end
LastToFirst(fns, n) == [k \in 1..n |-> fns[Len(fns) + 1 - k].id]

\* C29: no cleanup function runs before the context is cancelled; while
\* Shutdown is in its loop the functions run so far are the last
\* registered ones, the last first; when Shutdown has returned every
\* registered function has run once, in the reverse of the order of
\* registration, and every one that returned an error was logged and the
\* ones after it have run all the same.
C29_CleanupsRunInReverse ==
  /\ result.ran # <<>> => result.cancelled
  /\ result.pc \in {"cleanup", "done"} =>
       /\ result.cancelled
       /\ result.ran = LastToFirst(input, Len(input) - result.i)
  /\ result.pc = "done" =>
       /\ Len(result.ran) = Len(input)
       /\ \A k \in 1..Len(input) : result.ran[Len(input) + 1 - k] = k
       /\ result.logged = SelectSeq(result.ran, LAMBDA id : input[id].fails)

\* of three functions the last one registered failed, and the other two
\* have run after it
C29_Witness ==
  /\ result.pc = "done"
  /\ Len(input) = 3
  /\ input[3].fails /\ ~input[2].fails
  /\ result.ran = <<3, 2, 1>>
  /\ result.logged = <<3>>

\* the goroutine's next step writes a field of the Engine
Writing(t) ==
  th[t].pc \in {"updateConfig_write", "recordFailure_isOnline", "recordFailure_store",
                "recordSuccess_isOnline", "recordSuccess_store", "rotate_store"}

\* the goroutine's next step reads or writes a field of the Engine
Accessing(t) ==
  \/ Writing(t)
  \/ th[t].pc \in {"shouldTryAI_return", "recordFailure_load", "rotate_load",
                   "generate", "testConnection"}

\* the state the goroutine's next step touches: e.config, or the
\* connection state and the rotation counters
Touched(t) ==
  IF th[t].pc \in {"updateConfig_write", "generate", "testConnection"}
  THEN "config" ELSE "state"

\* C21: whatever calls of GeneratePersonalizedProblem, GenerateFeedback,
\* GetAvailableModels, GetCurrentModel and UpdateConfig run at once, no
\* goroutine is about to write state of the Engine while another is about
\* to read or write the same state, unless both hold e.mu.
C21_NoUnlockedAccess ==
  \A t \in Threads : \A u \in Threads \ {t} :
    (Writing(t) /\ Accessing(u) /\ Touched(t) = Touched(u)) => (Holds(t) /\ Holds(u))

(***************************************************************************)
(* Further properties of the coordinator (under Spec).                     *)
(***************************************************************************)
\* the goroutine is between the first and the last write of a recordFailure
\* or a recordSuccess, which it makes holding e.mu
MidUpdate(t) ==
  th[t].pc \in {"recordFailure_load", "recordFailure_store", "recordSuccess_store"}

\* C32: in every state in which no update of the connection state is half
\* done (the states any holder of e.mu can see), whatever the interleaving
\* of the calls, isOnline is true exactly if failureCount is 0, and
\* failureCount is the number of recordFailures applied since the last
\* recordSuccess, or since NewEngine if there was none.
C32_OnlineIffNoFailures ==
  (\A t \in Threads : ~MidUpdate(t)) =>
    /\ isOnline <=> (failureCount = 0)
    /\ failureCount = applied

\* one goroutine has completed a recordSuccess while the call of the
\* other, which recorded a failure before it, is still under way
C32_Witness ==
  \E t \in Threads : \E u \in Threads \ {t} :
    /\ th[t].pc = "recordSuccess_unlock"
    /\ th[u].pc = "rotate" /\ trace[u].failures = 1
    /\ isOnline /\ failureCount = 0 /\ applied = 0

\* the call of the goroutine has its answer from e.generate, without error
TransportSucceeded(t) ==
  th[t].kind \in {"problem", "feedback"} /\ trace[t].attempts = 1
    /\ th[t].pc # "generate" /\ th[t].gen.err = "nil"

\* C33: a call whose e.generate returned without error makes no offline
\* lookup, whether its reply is then accepted or rejected; and a step that
\* changes a rotation counter is a step of a GeneratePersonalizedProblem
\* whose e.generate returned an error and which recorded the failure.
C33_CountersMoveOnlyOnFallback ==
  /\ [](\A t \in Threads : TransportSucceeded(t) => trace[t].lookups = 0)
  /\ [][problemIndex' # problemIndex =>
          \E t \in Threads :
            /\ th[t].pc = "rotate_store" /\ th'[t].pc # "rotate_store"
            /\ th[t].kind = "problem"
            /\ th[t].gen.err # "nil"
            /\ trace[t].failures = 1 /\ trace[t].successes = 0]_vars

\* after an earlier call fell back and advanced a counter, a call whose
\* reply was read without error and rejected has returned its error, and
\* the counter is where the earlier call left it
C33_Witness ==
  \E t \in Threads :
    /\ scenario = "sequential"
    /\ th[t].pc = "idle" /\ th[t].kind = "problem"
    /\ TransportSucceeded(t)
    /\ th[t].ret.err # "nil"
    /\ trace[t].lookups = 0
    /\ calls = 2
    /\ \E key \in DOMAIN problemIndex : problemIndex[key] = 1

\* the (subject, grade) pairs with a rotating list, English up to the
\* grades mathematics has lists for
RotatingContexts ==
  {StudyContext(subject, grade) : subject \in {Suugaku, Sansuu, Eigo}, grade \in mathGrades}

\* the entry the next offline lookup of the context returns
NextEntry(index, context) ==
  rotationList(context)[rotationIndex(index, rotationKey(context), rotationList(context)) + 1]

\* the step is the goroutine's write of a rotation counter
LookupStep(t) == th[t].pc = "rotate_store" /\ th'[t].pc = "rotate_unlock"

\* the two pairs are the same, or mathematics and arithmetic of one grade
SameCounter(c, d) ==
  /\ c.Grade = d.Grade
  /\ c.Subject = d.Subject \/ {c.Subject, d.Subject} = {Suugaku, Sansuu}

\* C34 as stated: an offline lookup for one (subject, grade) pair does not
\* change which entry the next lookup of any other pair returns.
C34_IndependentPerSubjectAndGrade ==
  [][\A t \in Threads :
       LookupStep(t) =>
         \A c \in RotatingContexts \ {th[t].context} :
           NextEntry(problemIndex', c) = NextEntry(problemIndex, c)]_vars

\* C34, amended: mathematics and arithmetic of one grade share one counter.
\* An offline lookup changes the counter of its own key and no other, and
\* it changes which entry the next lookup of a pair returns exactly for the
\* pairs that share its counter.
C34_IndependentPerCounter ==
  [][\A t \in Threads :
       LookupStep(t) =>
         /\ \A key \in (DOMAIN problemIndex) \cup (DOMAIN problemIndex') :
              key # rotationKey(th[t].context) =>
                MapGetInt(problemIndex', key) = MapGetInt(problemIndex, key)
         /\ \A c \in RotatingContexts :
              SameCounter(c, th[t].context)
                <=> NextEntry(problemIndex', c) # NextEntry(problemIndex, c)]_vars

\* a lookup for English has written its counter after a lookup for
\* mathematics, grade 2, whose counter is where that lookup left it
C34_Witness ==
  \E t \in Threads :
    /\ th[t].pc = "rotate_unlock"
    /\ th[t].context = StudyContext(Eigo, 1)
    /\ MapGetInt(problemIndex, rotationKey(StudyContext(Eigo, 1))) = 1
    /\ MapGetInt(problemIndex, rotationKey(StudyContext(Suugaku, 2))) = 1

\* C35: for every StudyContext, building the prompt of
\* GeneratePersonalizedProblem does not panic, and a call whose e.generate
\* returned an error has returned an offline Problem of its context and no
\* error.
C35_EveryContextGetsAProblem ==
  \A t \in Threads :
    /\ th[t].kind = "problem" => th[t].pc # "panic"
    /\ (ProblemReturned(t) /\ th[t].gen.err # "nil") =>
         /\ th[t].ret.err = "nil"
         /\ th[t].ret.problem \in OfflineProblems(th[t].context)

(***************************************************************************)
(* Further properties of replies and the feedback prompt (under ReplySpec).*)
(***************************************************************************)
\* C36: building the feedback prompt for a request that carries a Problem
\* GeneratePersonalizedProblem returned does not index Options out of range:
\* not for a Problem parsed from a reply and accepted, and not for any
\* Problem of the offline bank.
C36_FeedbackPromptIndexInRange ==
  /\ result.classified => ~result.panics
  /\ \A problem \in BankProblems : \A isCorrect \in BOOLEAN :
       ~buildFeedbackPromptPanics(FeedbackRequest(problem, isCorrect))

\* the prompt has been built for a parsed Problem whose CorrectAnswer is
\* the last index of its Options
C36_Witness ==
  /\ result.classified /\ ~result.panics
  /\ input.correct = <<"4">>
  /\ result.problem.CorrectAnswer = Len(result.problem.Options) - 1

(***************************************************************************)
(* Properties of GenerateFeedback's parsing (under FeedbackSpec).          *)
(***************************************************************************)
\* the value of a key in a map of fields, empty if the map has none
ValueOf(fields, key) == IF key \in DOMAIN fields THEN fields[key] ELSE <<>>

\* the FeedbackResponse of a map of fields
FeedbackOf(fields) ==
  FeedbackResponse(ValueOf(fields, MESSAGE), ValueOf(fields, EXPLANATION),
                   ValueOf(fields, ENCOURAGEMENT), ValueOf(fields, NEXT_STEPS),
                   ValueOf(fields, TIP))

\* C37 as stated: after a successful transport GenerateFeedback returns an
\* error exactly if no line of the reply has a colon; otherwise it returns
\* the FeedbackResponse of the reply's fields, unvalidated, with the empty
\* string for each field that is missing or empty.
C37_ErrorIffNoColon ==
  result.made =>
    /\ (result.ret.err # "nil") <=> (Heads(input) = {})
    /\ result.ret.err = "nil" => result.ret.feedback = FeedbackOf(TrimmedFields(input))

\* C37, amended: the error is returned exactly if the reply has no line with
\* a colon and a key before it (a line that begins with its colon makes no
\* field); the rest as stated.
C37_ErrorIffNoField ==
  result.made =>
    /\ (result.ret.err # "nil") <=> (DOMAIN TrimmedFields(input) = {})
    /\ result.ret.err # "nil" => result.ret.feedback = NilFeedback
    /\ result.ret.err = "nil" => result.ret.feedback = FeedbackOf(TrimmedFields(input))

\* ": y", "MESSAGE:" and "TIP: t": the first line makes no field, the
\* MESSAGE is empty, and the call returns a FeedbackResponse with the tip alone
C37_Witness ==
  /\ result.made
  /\ input = << <<":", " ", "y">>, MESSAGE \o <<":">>, TIP \o <<":", " ", "t">> >>
  /\ result.ret.err = "nil"
  /\ result.ret.feedback = FeedbackResponse(<<>>, <<>>, <<>>, <<>>, <<"t">>)

C39_GeneratingWhileInFlight ==
  result.generating > 0 => (result.isGenerating /\ ~result.selectEnabled)

=============================================================================
